---- MODULE Spec2Model ----
(***************************************************************************)
(* Sybil-attack detection: the analysis engine (lib/analyze.ts,            *)
(* analyzeLogs) and the web worker that runs it (self.onmessage with the   *)
(* activeRequestId cell).                                                  *)
(*                                                                         *)
(* The worker is a single-threaded, run-to-completion message handler:     *)
(* the main thread may post messages at any time (they queue in inbox),    *)
(* but the next message is taken up only when the current handler has      *)
(* returned (pc = "idle").  An analyze handler is modelled in steps, one   *)
(* per stretch of analyzeLogs that ends in a progress checkpoint.          *)
(*                                                                         *)
(* Numbers that are fractions in the code are exact rationals here         *)
(* ([num, den], den > 0, lowest terms); a number that may be NaN is        *)
(* [finite, v].                                                            *)
(***************************************************************************)
EXTENDS Integers, Sequences, FiniteSets, TLC

VARIABLES
    inbox,            \* messages posted to the worker and not yet taken up
    sent,             \* number of messages the main thread has posted
    activeRequestId,  \* the worker's module-level cell (None = null)
    pc,               \* position of the worker inside self.onmessage
    msg,              \* <<m>>: the analyze message being handled (after the
                      \* handler returned: the last one handled); <<>> at first
    run,              \* history: number of analyze messages taken up so far
    cancelled,        \* history: ids whose matching cancel was handled, with no
                      \* analyze of the same id handled since
    inFlightCancels,  \* history: ids for which a cancel was posted while the
                      \* run of that id now being handled was under way
    outbox,           \* notifications posted by the worker, in order
    nodes,            \* analyzeLogs local: Set<string>, in insertion order
    edges,            \* analyzeLogs local: EdgeDefinition[]
    clusters,         \* analyzeLogs local: DetailedCluster[]
    timeBins,         \* analyzeLogs local: bin -> action -> target -> info
    waves,            \* analyzeLogs local: WaveResult[]
    actorStats,       \* analyzeLogs local: Object.values(actorStats)
    scorecards,       \* analyzeLogs local: ActorScorecard[]
    result,           \* <<r>>: the value analyzeLogs returned; <<>> before its return
    raw,              \* lib/validate.ts: the rows given to the two functions
    validated,        \* <<validateLogs(raw)>>, <<>> before the call
    sanitized         \* <<sanitizeLogs(raw)>>, <<>> before the call

vars == <<inbox, sent, activeRequestId, pc, msg, run, cancelled, inFlightCancels,
          outbox,
          nodes, edges, clusters, timeBins, waves, actorStats, scorecards, result,
          raw, validated, sanitized>>

validation == <<raw, validated, sanitized>>

locals == <<nodes, edges, clusters, timeBins, waves, scorecards>>

-----------------------------------------------------------------------------
(* Bounds of the model *)

\* longest log drawn as input
MaxLogLen == 3
\* number of messages the main thread posts in the worker specification
MaxMsgs == 3
MaxRepeat == 6

-----------------------------------------------------------------------------
(* Rationals and possibly-NaN numbers *)

RECURSIVE Gcd(_, _)
Gcd(a, b) == IF b = 0 THEN a ELSE Gcd(b, a % b)

Abs(n) == IF n < 0 THEN -n ELSE n

\* n/d for d # 0, in lowest terms with a positive denominator
Rat(n, d) ==
    LET s == IF d < 0 THEN -1 ELSE 1
        g == Gcd(Abs(n), Abs(d))
    IN  [num |-> (s * n) \div g, den |-> (s * d) \div g]

RatInt(n) == [num |-> n, den |-> 1]
RatLeq(x, y) == x.num * y.den <= y.num * x.den
RatLt(x, y) == x.num * y.den < y.num * x.den
RatAdd(x, y) == Rat(x.num * y.den + y.num * x.den, x.den * y.den)
RatSub(x, y) == Rat(x.num * y.den - y.num * x.den, x.den * y.den)
RatMul(x, y) == Rat(x.num * y.num, x.den * y.den)
RatDiv(x, y) == Rat(x.num * y.den, x.den * y.num)
RatMin(x, y) == IF RatLeq(x, y) THEN x ELSE y
Zero == RatInt(0)
One == RatInt(1)
InUnit(x) == RatLeq(Zero, x) /\ RatLeq(x, One)

NaN == [finite |-> FALSE, v |-> 0]
Num(n) == [finite |-> TRUE, v |-> n]

-----------------------------------------------------------------------------
(* Ordered containers: a JS Set / Map / plain object with non-numeric keys *)
(* iterates in insertion order.  A set is a duplicate-free sequence, a map *)
(* a sequence of <<key, value>> pairs with distinct keys.                  *)

Range(s) == {s[i] : i \in 1..Len(s)}
SetAdd(s, x) == IF x \in Range(s) THEN s ELSE Append(s, x)

MapKeys(m) == {m[i][1] : i \in 1..Len(m)}
MapHas(m, k) == k \in MapKeys(m)
MapGet(m, k) == m[CHOOSE i \in 1..Len(m) : m[i][1] = k][2]
MapPut(m, k, v) ==
    IF MapHas(m, k)
    THEN [i \in 1..Len(m) |-> IF m[i][1] = k THEN <<k, v>> ELSE m[i]]
    ELSE Append(m, <<k, v>>)

RECURSIVE SumSeq(_)
SumSeq(s) == IF s = <<>> THEN 0 ELSE s[1] + SumSeq(Tail(s))

RECURSIVE Concat(_)
Concat(ss) == IF ss = <<>> THEN <<>> ELSE ss[1] \o Concat(Tail(ss))

-----------------------------------------------------------------------------
(* Dates.  A timestamp is a string; new Date(s).getTime() is its instant in *)
(* ms or NaN, Date.prototype.toISOString renders an instant canonically    *)
(* (with milliseconds) and throws a RangeError on an invalid date.         *)

NotADate == "not-a-date"

\* new Date(s).getTime()
DateParse(s) ==
    CASE s = "1969-12-25T00:00:29Z" -> Num(-604771000)
      [] s = "1969-12-25T00:00:30Z" -> Num(-604770000)
      [] s = "1969-12-31T23:59:59Z" -> Num(-1000)
      [] s = "1970-01-01T00:00:30Z" -> Num(30000)
      [] s = "1970-01-01T00:01:10Z" -> Num(70000)
      [] s = "1970-01-01T00:05:00Z" -> Num(300000)
      [] s = "1969-12-31T23:55:00.000Z" -> Num(-300000)
      [] s = "1969-12-31T23:59:00.000Z" -> Num(-60000)
      [] s = "1970-01-01T00:00:00.000Z" -> Num(0)
      [] s = "1970-01-01T00:01:00.000Z" -> Num(60000)
      [] s = "1970-01-01T00:02:00.000Z" -> Num(120000)
      [] s = "1970-01-01T00:05:00.000Z" -> Num(300000)
      [] s = "1970-01-01T00:06:00.000Z" -> Num(360000)
      [] s = "1970-01-01T00:10:00.000Z" -> Num(600000)
      [] OTHER -> NaN

\* the instants toISOString is asked to render in this model
IsoInstants == {-300000, -60000, 0, 60000, 120000, 300000, 360000, 600000}

\* new Date(ms).toISOString() for a valid date
ToISOString(ms) ==
    CASE ms = -300000 -> "1969-12-31T23:55:00.000Z"
      [] ms = -60000 -> "1969-12-31T23:59:00.000Z"
      [] ms = 0 -> "1970-01-01T00:00:00.000Z"
      [] ms = 60000 -> "1970-01-01T00:01:00.000Z"
      [] ms = 120000 -> "1970-01-01T00:02:00.000Z"
      [] ms = 300000 -> "1970-01-01T00:05:00.000Z"
      [] ms = 360000 -> "1970-01-01T00:06:00.000Z"
      [] ms = 600000 -> "1970-01-01T00:10:00.000Z"

-----------------------------------------------------------------------------
(* Inputs: events, logs, settings, messages.  Ids and action labels are     *)
(* non-empty strings that are neither integer-like nor names of            *)
(* Object.prototype properties (the rows come out of sanitizeLogs, which    *)
(* drops empty fields), so plain-object keys iterate in insertion order.    *)

None == "null"
RequestIds == {"r1", "r2"}

\* a LogEntry; actorCreatedAt = "", bio = "" and links = <<>> stand for an
\* absent optional field
EventProfile(ts, actor, target, action, createdAt, bio, links) ==
    [timestamp |-> ts, actor |-> actor, target |-> target, action |-> action,
     actorCreatedAt |-> createdAt, bio |-> bio, links |-> links]
EventCreated(ts, actor, target, action, createdAt) ==
    EventProfile(ts, actor, target, action, createdAt, "", <<>>)
Event(ts, actor, target, action) == EventCreated(ts, actor, target, action, "")

RECURSIVE SeqsUpTo(_, _)
\* all sequences over S of length 0..n
SeqsUpTo(S, n) ==
    IF n = 0 THEN {<<>>}
    ELSE LET shorter == SeqsUpTo(S, n - 1)
         IN  shorter \cup {Append(s, e) : s \in {t \in shorter : Len(t) = n - 1}, e \in S}

MkSettings(minCluster, binMinutes, minCount, minActors, thr) ==
    [threshold |-> thr, minClusterSize |-> minCluster, timeBinMinutes |-> binMinutes,
     waveMinCount |-> minCount, waveMinActors |-> minActors,
     positiveActions |-> <<"follow">>, churnActions |-> <<"unfollow">>]

AnalyzeMessage(id, logs, settings) ==
    [type |-> "analyze", requestId |-> id, logs |-> logs, settings |-> settings]
CancelMessage(id) ==
    [type |-> "cancel", requestId |-> id, logs |-> <<>>, settings |-> <<>>]

-----------------------------------------------------------------------------
(* analyzeLogs: graph build *)

Includes(arr, x) == x \in Range(arr)

Front(s) == SubSeq(s, 1, Len(s) - 1)
Last(s) == s[Len(s)]

RECURSIVE NodesOf(_)
\* nodes.add(log.actor); nodes.add(log.target) for each log, in order
NodesOf(logs) ==
    IF logs = <<>> THEN <<>>
    ELSE SetAdd(SetAdd(NodesOf(Front(logs)), Last(logs).actor), Last(logs).target)

RECURSIVE EdgesOf(_, _)
\* one edge per event whose action is a positive action (no deduplication)
EdgesOf(logs, settings) ==
    IF logs = <<>> THEN <<>>
    ELSE LET log == Last(logs)
             rest == EdgesOf(Front(logs), settings)
         IN  IF Includes(settings.positiveActions, log.action)
             THEN Append(rest, [source |-> log.actor, target |-> log.target])
             ELSE rest

RECURSIVE Adjacency(_, _)
\* graph[node] = [] for every node; then graph[s].push(t); graph[t].push(s)
\* for every edge whose two ends are non-empty strings
Adjacency(ns, es) ==
    IF es = <<>> THEN [n \in Range(ns) |-> <<>>]
    ELSE LET g == Adjacency(ns, Front(es))
             s == Last(es).source
             t == Last(es).target
         IN  IF s = "" \/ t = "" THEN g
             ELSE LET g1 == [g EXCEPT ![s] = Append(@, t)]
                  IN  [g1 EXCEPT ![t] = Append(@, s)]

-----------------------------------------------------------------------------
(* analyzeLogs: connected components and cluster metrics *)

\* mutant of PushNeighbors: the loop ends after the first neighbour it
\* pushes
PushFirstNeighbor(neighbors, stack, visited) ==
    LET fresh == SelectSeq(neighbors, LAMBDA n : n \notin visited)
    IN  IF fresh = <<>> THEN [stack |-> stack, visited |-> visited]
        ELSE [stack |-> Append(stack, fresh[1]), visited |-> visited \cup {fresh[1]}]

RECURSIVE PushNeighbors(_, _, _)
\* for (const neighbor of graph[node]) { if visited: continue; add; push }
PushNeighbors(neighbors, stack, visited) ==
    IF neighbors = <<>> THEN [stack |-> stack, visited |-> visited]
    ELSE IF neighbors[1] \in visited
         THEN PushNeighbors(Tail(neighbors), stack, visited)
         ELSE PushNeighbors(Tail(neighbors), Append(stack, neighbors[1]),
                            visited \cup {neighbors[1]})

RECURSIVE DfsLoop(_, _, _, _)
\* while (stack.length > 0) { node = stack.pop(); component.push(node); ... }
DfsLoop(g, stack, visited, component) ==
    IF stack = <<>> THEN [visited |-> visited, component |-> component]
    ELSE LET node == Last(stack)
             r == PushNeighbors(g[node], Front(stack), visited)
         IN  DfsLoop(g, r.stack, r.visited, Append(component, node))

\* mutant of Dfs: visited.add(start) is missing
DfsStartUnmarked(g, start, visited) == DfsLoop(g, <<start>>, visited, <<>>)

\* dfs(start, component) with component = [] on entry
Dfs(g, start, visited) == DfsLoop(g, <<start>>, visited \cup {start}, <<>>)

CountIn(s, S) == Cardinality({i \in 1..Len(s) : s[i] \in S})
CountNotIn(s, S) == Cardinality({i \in 1..Len(s) : s[i] \notin S})

\* the DetailedCluster pushed for a component
MkCluster(g, id, component) ==
    LET memberSet == Range(component)
        size == Len(component)
        internalEdges ==
            Rat(SumSeq([i \in 1..size |-> CountIn(g[component[i]], memberSet)]), 2)
        possibleEdges == Rat(size * (size - 1), 2)
        density == IF RatLt(Zero, possibleEdges)
                   THEN RatDiv(internalEdges, possibleEdges) ELSE Zero
        externalEdges ==
            SumSeq([i \in 1..size |-> CountNotIn(g[component[i]], memberSet)])
        totalEdges == RatAdd(internalEdges, RatInt(externalEdges))
        conductance == IF RatLt(Zero, totalEdges)
                       THEN RatDiv(RatInt(externalEdges), totalEdges) ELSE Zero
    IN  [clusterId |-> id, members |-> component, density |-> density,
         conductance |-> conductance, externalEdges |-> externalEdges]

RECURSIVE ClusterLoop(_, _, _, _, _, _)
\* for (const node of nodes) { if visited: continue; dfs; size check; push }
ClusterLoop(g, ns, i, visited, cs, minClusterSize) ==
    IF i > Len(ns) THEN cs
    ELSE IF ns[i] \in visited
         THEN ClusterLoop(g, ns, i + 1, visited, cs, minClusterSize)
         ELSE LET d == Dfs(g, ns[i], visited)
              IN  IF Len(d.component) < minClusterSize
                  THEN ClusterLoop(g, ns, i + 1, d.visited, cs, minClusterSize)
                  ELSE ClusterLoop(g, ns, i + 1, d.visited,
                                   Append(cs, MkCluster(g, Len(cs), d.component)),
                                   minClusterSize)

ClustersOf(ns, es, settings) ==
    ClusterLoop(Adjacency(ns, es), ns, 1, {}, <<>>, settings.minClusterSize)

-----------------------------------------------------------------------------
(* analyzeLogs: time bins and waves *)

Max(a, b) == IF a >= b THEN a ELSE b

BinSizeMs(settings) == Max(1, settings.timeBinMinutes) * 60 * 1000

\* mutant of BinOf: the quotient is truncated towards zero
BinOfTruncated(ms, binSizeMs) ==
    IF ms < 0 THEN -(((-ms) \div binSizeMs) * binSizeMs)
    ELSE (ms \div binSizeMs) * binSizeMs

\* Math.floor(date.getTime() / binSizeMs) * binSizeMs
BinOf(ms, binSizeMs) == (ms \div binSizeMs) * binSizeMs

RECURSIVE TimeBinsLoop(_, _, _, _)
\* logs.forEach: toISOString throws on the first log whose timestamp does
\* not parse (bin is NaN); threw tells whether the loop ended that way
TimeBinsLoop(logs, i, binSizeMs, tb) ==
    IF i > Len(logs) THEN [threw |-> FALSE, timeBins |-> tb]
    ELSE LET log == logs[i]
             t == DateParse(log.timestamp)
         IN  IF ~t.finite THEN [threw |-> TRUE, timeBins |-> tb]
             ELSE LET binKey == ToISOString(BinOf(t.v, binSizeMs))
                      actions == IF MapHas(tb, binKey) THEN MapGet(tb, binKey) ELSE <<>>
                      targets == IF MapHas(actions, log.action)
                                 THEN MapGet(actions, log.action) ELSE <<>>
                      info == IF MapHas(targets, log.target)
                              THEN MapGet(targets, log.target)
                              ELSE [count |-> 0, actors |-> <<>>]
                      info2 == [count |-> info.count + 1,
                                actors |-> SetAdd(info.actors, log.actor)]
                  IN  TimeBinsLoop(logs, i + 1, binSizeMs,
                          MapPut(tb, binKey,
                              MapPut(actions, log.action,
                                  MapPut(targets, log.target, info2))))

\* the (time, action, target, info) groups in Object.entries order
Groups(tb) ==
    Concat([i \in 1..Len(tb) |->
        Concat([j \in 1..Len(tb[i][2]) |->
            [k \in 1..Len(tb[i][2][j][2]) |->
                [time |-> tb[i][1], action |-> tb[i][2][j][1],
                 target |-> tb[i][2][j][2][k][1], info |-> tb[i][2][j][2][k][2]]]])])

\* mutant of IsWave: the distinct-actor test is missing
IsWaveCountOnly(info, settings) == info.count >= settings.waveMinCount

\* mutant of IsWave: the count is tested for equality with the threshold
IsWaveExactCount(info, settings) ==
    info.count = settings.waveMinCount /\ Len(info.actors) >= settings.waveMinActors

\* info.count >= waveMinCount && info.actors.size >= waveMinActors
IsWave(info, settings) ==
    info.count >= settings.waveMinCount /\ Len(info.actors) >= settings.waveMinActors

\* mutant of MkWave: the count is divided by the actor threshold
MkWaveByActors(g, settings) ==
    [windowStart |-> g.time,
     windowEnd |-> ToISOString(DateParse(g.time).v + BinSizeMs(settings)),
     action |-> g.action, target |-> g.target, actors |-> g.info.actors,
     zScore |-> Rat(g.info.count, Max(1, settings.waveMinActors))]

\* waves.push({ windowStart, windowEnd, action, target, actors, zScore })
MkWave(g, settings) ==
    [windowStart |-> g.time,
     windowEnd |-> ToISOString(DateParse(g.time).v + BinSizeMs(settings)),
     action |-> g.action, target |-> g.target, actors |-> g.info.actors,
     zScore |-> Rat(g.info.count, Max(1, settings.waveMinCount))]

WavesOf(tb, settings) ==
    LET gs == Groups(tb)
    IN  Concat([i \in 1..Len(gs) |->
            IF IsWave(gs[i].info, settings) THEN <<MkWave(gs[i], settings)>> ELSE <<>>])

-----------------------------------------------------------------------------
(* analyzeLogs: actor statistics and scorecards *)

RECURSIVE MinOf(_)
\* Math.min over a non-empty sequence of integers
MinOf(s) ==
    IF Len(s) = 1 THEN s[1]
    ELSE LET m == MinOf(Tail(s)) IN IF s[1] <= m THEN s[1] ELSE m

\* the finite instants of the logs selected by P, in log order
FiniteTimes(logs, actor, anyActor) ==
    LET sel == SelectSeq(logs, LAMBDA l :
                   (anyActor \/ l.actor = actor) /\ DateParse(l.timestamp).finite)
    IN  [i \in 1..Len(sel) |-> DateParse(sel[i].timestamp).v]

RECURSIVE CreatedAtOf(_, _)
\* actorProfiles[actor]?.actorCreatedAt: the last truthy value on a row of
\* that actor, "" when there is none
CreatedAtOf(logs, actor) ==
    IF logs = <<>> THEN ""
    ELSE IF Last(logs).actor = actor /\ Last(logs).actorCreatedAt # ""
         THEN Last(logs).actorCreatedAt
         ELSE CreatedAtOf(Front(logs), actor)

\* positiveOut.get(actor) ?? new Set()
PositiveOut(logs, settings, actor) ==
    {logs[i].target : i \in {j \in 1..Len(logs) :
        logs[j].actor = actor /\ Includes(settings.positiveActions, logs[j].action)}}

\* positiveIn.get(node) ?? new Set()
PositiveIn(logs, settings, node) ==
    {logs[i].actor : i \in {j \in 1..Len(logs) :
        logs[j].target = node /\ Includes(settings.positiveActions, logs[j].action)}}

RECURSIVE ClusterSizeOf(_, _)
\* clusters.forEach(members.forEach(actorStats[member].clusterSize = length))
ClusterSizeOf(cs, node) ==
    IF cs = <<>> THEN 0
    ELSE IF node \in Range(Last(cs).members) THEN Len(Last(cs).members)
         ELSE ClusterSizeOf(Front(cs), node)

WaveKey(g) == g.time \o ":" \o g.action \o ":" \o g.target

\* mutant of BurstActions: every wave of the log is counted for every actor
BurstActionsOfAll(tb, settings, actor) ==
    LET gs == Groups(tb)
    IN  Cardinality({WaveKey(gs[i]) : i \in {j \in 1..Len(gs) :
            IsWave(gs[j].info, settings)}})

\* waveBinsByActor.get(actor)?.size ?? 0
BurstActions(tb, settings, actor) ==
    LET gs == Groups(tb)
    IN  Cardinality({WaveKey(gs[i]) : i \in {j \in 1..Len(gs) :
            IsWave(gs[j].info, settings) /\ actor \in Range(gs[j].info.actors)}})

\* mutant of ActorStats: mutualPositive counts the nodes with a positive
\* action on the node
ActorStatsMutualIn(logs, settings, g, cs, tb, node) ==
    LET mine == SelectSeq(logs, LAMBDA l : l.actor = node)
        times == FiniteTimes(logs, node, FALSE)
        outSet == PositiveOut(logs, settings, node)
    IN  [actor |-> node,
         totalActions |-> Len(mine),
         churnActions |-> Len(SelectSeq(mine, LAMBDA l :
                              Includes(settings.churnActions, l.action))),
         burstActions |-> BurstActions(tb, settings, node),
         uniqueTargets |-> {mine[i].target : i \in 1..Len(mine)},
         connections |-> Len(g[node]),
         clusterSize |-> ClusterSizeOf(cs, node),
         positiveOut |-> Cardinality(outSet),
         positiveIn |-> Cardinality(PositiveIn(logs, settings, node)),
         mutualPositive |-> Cardinality(PositiveIn(logs, settings, node)),
         firstSeenMs |-> IF times = <<>> THEN NaN ELSE Num(MinOf(times))]

\* the ActorStats record of a node after all the scans
ActorStats(logs, settings, g, cs, tb, node) ==
    LET mine == SelectSeq(logs, LAMBDA l : l.actor = node)
        times == FiniteTimes(logs, node, FALSE)
        outSet == PositiveOut(logs, settings, node)
    IN  [actor |-> node,
         totalActions |-> Len(mine),
         churnActions |-> Len(SelectSeq(mine, LAMBDA l :
                              Includes(settings.churnActions, l.action))),
         burstActions |-> BurstActions(tb, settings, node),
         uniqueTargets |-> {mine[i].target : i \in 1..Len(mine)},
         connections |-> Len(g[node]),
         clusterSize |-> ClusterSizeOf(cs, node),
         positiveOut |-> Cardinality(outSet),
         positiveIn |-> Cardinality(PositiveIn(logs, settings, node)),
         mutualPositive |-> Cardinality({t \in outSet :
                                node \in PositiveOut(logs, settings, t)}),
         firstSeenMs |-> IF times = <<>> THEN NaN ELSE Num(MinOf(times))]

\* updateProfileAnomalyScore (./profile, an external collaborator): only its
\* range [0,1] is known; one value per actor, covering 0, 1/2 and 1
UpdateProfileAnomalyScore(actor) ==
    CASE actor = "a" -> Rat(1, 2)
      [] actor = "b" -> One
      [] OTHER -> Zero

DayMs == 24 * 60 * 60 * 1000

\* Math.min(all finite times); Date.now() is never observable, because a log
\* without any finite time throws before a result exists
DatasetStartMs(logs) ==
    LET all == FiniteTimes(logs, "", TRUE)
    IN  IF all = <<>> THEN 0 ELSE MinOf(all)

\* ageDays !== undefined && ageDays >= 0 && ageDays < 7 ? 1 : 0
NewAccountScore(logs, stats) ==
    LET createdAt == CreatedAtOf(logs, stats.actor)
        createdMs == IF createdAt # "" THEN DateParse(createdAt) ELSE NaN
        firstSeenMs == IF stats.firstSeenMs.finite THEN stats.firstSeenMs.v
                       ELSE DatasetStartMs(logs)
        \* createdMs && Number.isFinite(createdMs): 0 and NaN are falsy
        known == createdAt # "" /\ createdMs.finite /\ createdMs.v # 0
        age == firstSeenMs - createdMs.v
    IN  IF known /\ age >= 0 /\ age < 7 * DayMs THEN One ELSE Zero

CoordinationScore(stats) ==
    IF stats.totalActions > 0
    THEN RatMin(Rat(stats.burstActions, stats.totalActions), One) ELSE Zero

\* mutant of ClusterIsolationScore: a node without actions scores 0
ClusterIsolationScoreOfActors(stats) ==
    IF stats.totalActions > 0 /\ stats.clusterSize > 0
    THEN RatSub(One, Rat(stats.connections, stats.clusterSize)) ELSE Zero

\* stats.clusterSize > 0 ? 1 - stats.connections / stats.clusterSize : 0
ClusterIsolationScore(stats) ==
    IF stats.clusterSize > 0
    THEN RatSub(One, Rat(stats.connections, stats.clusterSize)) ELSE Zero

LowDiversityScore(stats) ==
    IF stats.totalActions > 0
    THEN RatSub(One, Rat(Cardinality(stats.uniqueTargets), stats.totalActions))
    ELSE Zero

\* 0.30 c + 0.20 min(churn/10, 1) + 0.15 iso + 0.10 new + 0.10 low + 0.15 prof
SybilScore(coordination, churnScore, isolation, newAccount, lowDiversity, profile) ==
    LET w(n, x) == RatMul(Rat(n, 100), x)
    IN  RatAdd(w(30, coordination),
        RatAdd(w(20, RatMin(Rat(churnScore, 10), One)),
        RatAdd(w(15, isolation),
        RatAdd(w(10, newAccount),
        RatAdd(w(10, lowDiversity), w(15, profile))))))

\* normalizeLinks (./profile, an external collaborator): the list without
\* repetitions, in first-occurrence order
RECURSIVE NormalizeLinks(_)
NormalizeLinks(ls) ==
    IF ls = <<>> THEN <<>> ELSE SetAdd(NormalizeLinks(Front(ls)), Last(ls))

SusLink == "https://free-airdrop.example"
PhishLink == "https://wallet-verify.example/login"
BioWithLink == "gm https://wallet-verify.example/login"

\* extractLinks (./profile, an external collaborator): the links in a bio
ExtractLinks(bio) == IF bio = BioWithLink THEN <<PhishLink>> ELSE <<>>

\* isSuspiciousDomain (./profile) and isLikelyPhishingUrl (./scam), external
\* predicates over one link
IsSuspiciousDomain(link) == link = SusLink
IsLikelyPhishingUrl(link) == link = PhishLink

\* (profile.bio || '').toLowerCase().replace(/\s+/g, ' ').trim() on the bios
\* of this model
NormalizeBio(bio) ==
    CASE bio = "GM " -> "gm"
      [] bio = "gm" -> "gm"
      [] bio = "  " -> ""
      [] OTHER -> bio

\* actorProfiles[actor] exists: the actor has a row
HasProfile(logs, actor) == \E i \in 1..Len(logs) : logs[i].actor = actor

RECURSIVE BioOf(_, _)
\* actorProfiles[actor].bio: the last truthy bio on a row of the actor
BioOf(logs, actor) ==
    IF logs = <<>> THEN ""
    ELSE IF Last(logs).actor = actor /\ Last(logs).bio # ""
         THEN Last(logs).bio
         ELSE BioOf(Front(logs), actor)

RECURSIVE ProfileLinksOf(_, _)
\* actorProfiles[actor].links: normalizeLinks of the last links on a row of
\* the actor
ProfileLinksOf(logs, actor) ==
    IF logs = <<>> THEN <<>>
    ELSE IF Last(logs).actor = actor /\ Last(logs).links # <<>>
         THEN NormalizeLinks(Last(logs).links)
         ELSE ProfileLinksOf(Front(logs), actor)

\* linksByActor.get(actor) ?? normalizeLinks(...): profile links, then the
\* links of the bio
LinksOf(logs, actor) ==
    IF HasProfile(logs, actor)
    THEN LET bio == BioOf(logs, actor)
         IN  NormalizeLinks(ProfileLinksOf(logs, actor)
                            \o (IF bio # "" THEN ExtractLinks(bio) ELSE <<>>))
    ELSE NormalizeLinks(<<>>)

\* computeSharedLinksByActor (./profile, an external collaborator): the
\* actor's links that another actor has too; [] for a node without profile
SharedLinksOf(logs, actor) ==
    IF HasProfile(logs, actor)
    THEN SelectSeq(LinksOf(logs, actor), LAMBDA l :
             \E i \in 1..Len(logs) :
                 logs[i].actor # actor /\ l \in Range(LinksOf(logs, logs[i].actor)))
    ELSE <<>>

\* bio ? Math.min(((bioCount.get(bio) || 1) - 1) / 5, 1) : 0
BioSimilarityScore(logs, actor) ==
    LET bio == NormalizeBio(BioOf(logs, actor))
        count == Cardinality({logs[i].actor : i \in {j \in 1..Len(logs) :
                     NormalizeBio(BioOf(logs, logs[j].actor)) = bio}})
    IN  IF bio # "" THEN RatMin(Rat(Max(count, 1) - 1, 5), One) ELSE Zero

\* computeHandlePatternScores(nodes).scoreByHandle.get(actor) ?? 0 (./scam,
\* an external collaborator): only its range [0,1] is known; one value per
\* id, below, at and above 0.4
HandlePatternScore(actor) ==
    CASE actor = "a" -> Rat(3, 10)
      [] actor = "c" -> Rat(2, 5)
      [] actor = "t" -> One
      [] OTHER -> Zero

\* mutant of Reasons: the score reason is given at the threshold too
ReasonsAtThreshold(settings, stats, s) ==
    LET when(c, text) == IF c THEN <<text>> ELSE <<>>
    IN  when(RatLeq(settings.threshold, s.sybilScore), "Score")
        \o when(RatLeq(Rat(1, 2), s.coordinationScore), "High coordination")
        \o when(s.churnScore >= 5, "High churn")
        \o when(RatLeq(Rat(1, 2), s.clusterIsolationScore)
                  /\ stats.clusterSize >= settings.minClusterSize, "Cluster isolation")
        \o when(RatLeq(Rat(7, 10), s.lowDiversityScore), "Low target diversity")
        \o when(Len(s.suspiciousLinks) > 0, "Suspicious link domains")
        \o when(Len(s.phishingLinks) > 0, "Phishing-like URLs")
        \o when(Len(s.sharedLinks) > 0, "Shared links with others")
        \o when(RatLeq(Rat(2, 5), s.bioSimilarityScore), "Repeated bio text")
        \o when(RatLeq(Rat(2, 5), s.handlePatternScore), "Handle pattern similarity")
        \o when(s.newAccountScore = One, "New account (<7 days)")

\* mutant of Reasons: the cluster reason is pushed before the coordination
\* reason
ReasonsClusterFirst(settings, stats, s) ==
    LET when(c, text) == IF c THEN <<text>> ELSE <<>>
    IN  when(RatLt(settings.threshold, s.sybilScore), "Score")
        \o when(RatLeq(Rat(1, 2), s.clusterIsolationScore)
                  /\ stats.clusterSize >= settings.minClusterSize, "Cluster isolation")
        \o when(RatLeq(Rat(1, 2), s.coordinationScore), "High coordination")
        \o when(s.churnScore >= 5, "High churn")
        \o when(RatLeq(Rat(7, 10), s.lowDiversityScore), "Low target diversity")
        \o when(Len(s.suspiciousLinks) > 0, "Suspicious link domains")
        \o when(Len(s.phishingLinks) > 0, "Phishing-like URLs")
        \o when(Len(s.sharedLinks) > 0, "Shared links with others")
        \o when(RatLeq(Rat(2, 5), s.bioSimilarityScore), "Repeated bio text")
        \o when(RatLeq(Rat(2, 5), s.handlePatternScore), "Handle pattern similarity")
        \o when(s.newAccountScore = One, "New account (<7 days)")

\* the reasons pushed for a scorecard, in push order; a reason is written
\* as its fixed text, without the figures it quotes
Reasons(settings, stats, s) ==
    LET when(c, text) == IF c THEN <<text>> ELSE <<>>
    IN  when(RatLt(settings.threshold, s.sybilScore), "Score")
        \o when(RatLeq(Rat(1, 2), s.coordinationScore), "High coordination")
        \o when(s.churnScore >= 5, "High churn")
        \o when(RatLeq(Rat(1, 2), s.clusterIsolationScore)
                  /\ stats.clusterSize >= settings.minClusterSize, "Cluster isolation")
        \o when(RatLeq(Rat(7, 10), s.lowDiversityScore), "Low target diversity")
        \o when(Len(s.suspiciousLinks) > 0, "Suspicious link domains")
        \o when(Len(s.phishingLinks) > 0, "Phishing-like URLs")
        \o when(Len(s.sharedLinks) > 0, "Shared links with others")
        \o when(RatLeq(Rat(2, 5), s.bioSimilarityScore), "Repeated bio text")
        \o when(RatLeq(Rat(2, 5), s.handlePatternScore), "Handle pattern similarity")
        \o when(s.newAccountScore = One, "New account (<7 days)")

Scorecard(logs, settings, stats) ==
    LET coordinationScore == CoordinationScore(stats)
        churnScore == stats.churnActions
        clusterIsolationScore == ClusterIsolationScore(stats)
        newAccountScore == NewAccountScore(logs, stats)
        lowDiversityScore == LowDiversityScore(stats)
        links == LinksOf(logs, stats.actor)
        phishingLinks == SelectSeq(links, IsLikelyPhishingUrl)
        profileAnomalyScore == UpdateProfileAnomalyScore(stats.actor)
        s == [sybilScore |-> SybilScore(coordinationScore, churnScore,
                                 clusterIsolationScore, newAccountScore,
                                 lowDiversityScore, profileAnomalyScore),
              churnScore |-> churnScore,
              coordinationScore |-> coordinationScore,
              clusterIsolationScore |-> clusterIsolationScore,
              lowDiversityScore |-> lowDiversityScore,
              newAccountScore |-> newAccountScore,
              suspiciousLinks |-> SelectSeq(links, IsSuspiciousDomain),
              phishingLinks |-> phishingLinks,
              sharedLinks |-> SharedLinksOf(logs, stats.actor),
              bioSimilarityScore |-> BioSimilarityScore(logs, stats.actor),
              handlePatternScore |-> HandlePatternScore(stats.actor)]
    IN  [actor |-> stats.actor,
         sybilScore |-> s.sybilScore,
         churnScore |-> churnScore,
         coordinationScore |-> coordinationScore,
         clusterIsolationScore |-> clusterIsolationScore,
         lowDiversityScore |-> lowDiversityScore,
         profileAnomalyScore |-> profileAnomalyScore,
         links |-> links,
         suspiciousLinks |-> s.suspiciousLinks,
         sharedLinks |-> s.sharedLinks,
         reciprocalRate |-> IF stats.positiveOut > 0
                            THEN Rat(stats.mutualPositive, stats.positiveOut) ELSE Zero,
         newAccountScore |-> newAccountScore,
         bioSimilarityScore |-> s.bioSimilarityScore,
         handlePatternScore |-> s.handlePatternScore,
         phishingLinkScore |-> IF Len(phishingLinks) > 0
                               THEN RatMin(Rat(Len(phishingLinks), 2), One) ELSE Zero,
         reasons |-> Reasons(settings, stats, s)]

\* exportEvidence: scorecards.filter(s => s.sybilScore > settings.threshold)
FlaggedScorecards(scs, settings) ==
    SelectSeq(scs, LAMBDA s : RatLt(settings.threshold, s.sybilScore))

\* mutant of ActorStatsOf: statistics are kept for the nodes that act only
ActorStatsOfActors(logs, settings, ns, es, cs, tb) ==
    LET g == Adjacency(ns, es)
        acting == SelectSeq(ns, LAMBDA n : HasProfile(logs, n))
    IN  [i \in 1..Len(acting) |-> ActorStats(logs, settings, g, cs, tb, acting[i])]

\* actorStats after the scans, as Object.values lists it: one per node
ActorStatsOf(logs, settings, ns, es, cs, tb) ==
    LET g == Adjacency(ns, es)
    IN  [i \in 1..Len(ns) |-> ActorStats(logs, settings, g, cs, tb, ns[i])]

\* Object.values(actorStats).map(...)
ScorecardsOf(logs, settings, stats) ==
    [i \in 1..Len(stats) |-> Scorecard(logs, settings, stats[i])]

-----------------------------------------------------------------------------
(* The worker: self.onmessage *)

\* mutant of Notification: the request id is left out of the message
NotificationWithoutId(type, id, stage, pct, payload) ==
    [type |-> type, requestId |-> None, stage |-> stage, pct |-> pct,
     run |-> run, payload |-> payload]

\* postMessage({ type, requestId, ... }); run tags the handler that posts it
Notification(type, id, stage, pct, payload) ==
    [type |-> type, requestId |-> id, stage |-> stage, pct |-> pct,
     run |-> run, payload |-> payload]

\* analyzeLogs' return value
Bundle(els, cs, ws, scs) ==
    [elements |-> els, clusters |-> cs, waves |-> ws, scorecards |-> scs]

\* mutant of Elements: node elements are made for the ends of edges only
ElementsFromEdges(ns, es) ==
    LET ends == SelectSeq(ns, LAMBDA n :
                    \E i \in 1..Len(es) : es[i].source = n \/ es[i].target = n)
    IN  [i \in 1..Len(ends) |-> [group |-> "nodes", id |-> ends[i], label |-> ends[i],
                                 source |-> "", target |-> ""]]
        \o [i \in 1..Len(es) |-> [group |-> "edges", id |-> "", label |-> "",
                                  source |-> es[i].source, target |-> es[i].target]]

\* [...nodeElements, ...edges]
Elements(ns, es) ==
    [i \in 1..Len(ns) |-> [group |-> "nodes", id |-> ns[i], label |-> ns[i],
                           source |-> "", target |-> ""]]
    \o [i \in 1..Len(es) |-> [group |-> "edges", id |-> "", label |-> "",
                              source |-> es[i].source, target |-> es[i].target]]

Cur == msg[1]

\* the guard before every postMessage: activeRequestId !== msg.requestId
Superseded == activeRequestId # Cur.requestId

\* onProgress: (p) => { if (superseded) return; postMessage(progress) }
Report(stage, pct) ==
    outbox' = IF Superseded THEN outbox
              ELSE Append(outbox, Notification("progress", Cur.requestId, stage, pct, <<>>))

\* mutant of PostResult: the result is posted a second time
PostResultTwice(box, r) ==
    IF Superseded THEN box
    ELSE Append(Append(box, Notification("result", Cur.requestId, "", 0, r)),
                Notification("result", Cur.requestId, "", 0, r))

\* lines 32-33 after analyzeLogs returned r with its last checkpoint posted
\* into box
PostResult(box, r) ==
    IF Superseded THEN box
    ELSE Append(box, Notification("result", Cur.requestId, "", 0, r))

\* mutant of PostError: the catch clause swallows the exception
PostErrorSwallowed(box, message) == box

\* lines 34-36: the catch clause
PostError(box, message) ==
    IF Superseded THEN box
    ELSE Append(box, Notification("error", Cur.requestId, "", 0, message))

\* the main thread posts a message to the worker
Send(m) ==
    /\ sent < MaxMsgs
    /\ inbox' = Append(inbox, m)
    /\ sent' = sent + 1
    /\ inFlightCancels' =
           IF pc # "idle" /\ m.type = "cancel" /\ m.requestId = Cur.requestId
           THEN inFlightCancels \cup {m.requestId} ELSE inFlightCancels
    /\ UNCHANGED <<validation, activeRequestId, pc, msg, run, cancelled, outbox, locals, actorStats, result>>

\* mutant of HandleCancel: the cell is not cleared
HandleCancelNoClear ==
    /\ pc = "idle"
    /\ inbox # <<>>
    /\ Head(inbox).type = "cancel"
    /\ inbox' = Tail(inbox)
    /\ cancelled' = IF activeRequestId = Head(inbox).requestId
                    THEN cancelled \cup {Head(inbox).requestId} ELSE cancelled
    /\ UNCHANGED <<validation, activeRequestId, sent, pc, msg, run, inFlightCancels, outbox, locals,
                   actorStats, result>>

\* mutant of HandleCancel: the cell is cleared whatever the id
HandleCancelAnyId ==
    /\ pc = "idle"
    /\ inbox # <<>>
    /\ Head(inbox).type = "cancel"
    /\ inbox' = Tail(inbox)
    /\ activeRequestId' = None
    /\ cancelled' = IF activeRequestId = Head(inbox).requestId
                    THEN cancelled \cup {Head(inbox).requestId} ELSE cancelled
    /\ UNCHANGED <<validation, sent, pc, msg, run, inFlightCancels, outbox, locals,
                   actorStats, result>>

\* onmessage, cancel branch
HandleCancel ==
    /\ pc = "idle"
    /\ inbox # <<>>
    /\ Head(inbox).type = "cancel"
    /\ inbox' = Tail(inbox)
    /\ activeRequestId' = IF activeRequestId = Head(inbox).requestId
                          THEN None ELSE activeRequestId
    /\ cancelled' = IF activeRequestId = Head(inbox).requestId
                    THEN cancelled \cup {Head(inbox).requestId} ELSE cancelled
    /\ UNCHANGED <<validation, sent, pc, msg, run, inFlightCancels, outbox, locals, actorStats, result>>

\* onmessage, analyze branch up to the call of analyzeLogs
HandleAnalyze ==
    /\ pc = "idle"
    /\ inbox # <<>>
    /\ Head(inbox).type = "analyze"
    /\ inbox' = Tail(inbox)
    /\ activeRequestId' = Head(inbox).requestId
    /\ msg' = <<Head(inbox)>>
    /\ run' = run + 1
    /\ cancelled' = cancelled \ {Head(inbox).requestId}
    /\ inFlightCancels' = {}
    /\ pc' = "start"
    /\ nodes' = <<>> /\ edges' = <<>> /\ clusters' = <<>> /\ timeBins' = <<>>
    /\ waves' = <<>> /\ scorecards' = <<>> /\ actorStats' = <<>> /\ result' = <<>>
    /\ UNCHANGED <<validation, sent, outbox>>

\* mutant of StartStage: the empty log is not returned early
StartStageNoEarlyReturn ==
    /\ pc = "start"
    /\ Report("start", 0)
    /\ pc' = "profiles"
    /\ UNCHANGED <<validation, inbox, sent, activeRequestId, msg, run, cancelled, inFlightCancels,
                   locals,
                   actorStats, result>>

\* report start; an empty log returns the empty bundle at once
StartStage ==
    /\ pc = "start"
    /\ LET progress == IF Superseded THEN outbox
                       ELSE Append(outbox, Notification("progress", Cur.requestId,
                                                        "start", 0, <<>>))
           empty == Bundle(<<>>, <<>>, <<>>, <<>>)
       IN  IF Cur.logs = <<>>
           THEN /\ result' = <<empty>>
                /\ outbox' = PostResult(progress, empty)
                /\ pc' = "idle"
           ELSE /\ outbox' = progress
                /\ pc' = "profiles"
                /\ UNCHANGED result
    /\ UNCHANGED <<validation, inbox, sent, activeRequestId, msg, run, cancelled, inFlightCancels,
                   locals, actorStats>>

\* mutant of ProfilesStage: the profiles checkpoint is not reported
ProfilesStageSilent ==
    /\ pc = "profiles"
    /\ pc' = "graph"
    /\ UNCHANGED <<validation, inbox, sent, activeRequestId, msg, run, cancelled, inFlightCancels,
                   outbox, locals,
                   actorStats, result>>

\* profile collection (external collaborators), report profiles
ProfilesStage ==
    /\ pc = "profiles"
    /\ Report("profiles", 15)
    /\ pc' = "graph"
    /\ UNCHANGED <<validation, inbox, sent, activeRequestId, msg, run, cancelled, inFlightCancels,
                   locals, actorStats, result>>

\* nodes, edges, elements; report graph
GraphStage ==
    /\ pc = "graph"
    /\ nodes' = NodesOf(Cur.logs)
    /\ edges' = EdgesOf(Cur.logs, Cur.settings)
    /\ Report("graph", 30)
    /\ pc' = "clusters"
    /\ UNCHANGED <<validation, inbox, sent, activeRequestId, msg, run, cancelled, inFlightCancels,
                   clusters, timeBins, waves,
                   scorecards, actorStats, result>>

\* adjacency, components, cluster metrics; report clusters
ClustersStage ==
    /\ pc = "clusters"
    /\ clusters' = ClustersOf(nodes, edges, Cur.settings)
    /\ Report("clusters", 45)
    /\ pc' = "waves"
    /\ UNCHANGED <<validation, inbox, sent, activeRequestId, msg, run, cancelled, inFlightCancels,
                   nodes, edges, timeBins, waves,
                   scorecards, actorStats, result>>

\* time bins and waves; report waves.  A RangeError thrown by toISOString
\* leaves analyzeLogs and is caught by the handler's catch clause
WavesStage ==
    /\ pc = "waves"
    /\ LET r == TimeBinsLoop(Cur.logs, 1, BinSizeMs(Cur.settings), <<>>)
       IN  /\ timeBins' = r.timeBins
           /\ IF r.threw
              THEN /\ outbox' = PostError(outbox, "Invalid time value")
                   /\ pc' = "idle"
                   /\ waves' = waves
              ELSE /\ waves' = WavesOf(r.timeBins, Cur.settings)
                   /\ Report("waves", 60)
                   /\ pc' = "scorecards"
    /\ UNCHANGED <<validation, inbox, sent, activeRequestId, msg, run, cancelled, inFlightCancels,
                   nodes, edges, clusters,
                   scorecards, actorStats, result>>

\* actor statistics and scorecards; report scorecards
ScorecardsStage ==
    /\ pc = "scorecards"
    /\ LET stats == ActorStatsOf(Cur.logs, Cur.settings, nodes, edges, clusters, timeBins)
       IN  /\ actorStats' = stats
           /\ scorecards' = ScorecardsOf(Cur.logs, Cur.settings, stats)
    /\ Report("scorecards", 90)
    /\ pc' = "done"
    /\ UNCHANGED <<validation, inbox, sent, activeRequestId, msg, run, cancelled, inFlightCancels,
                   nodes, edges, clusters,
                   timeBins, waves, result>>

\* report done, return the bundle; the handler posts the result
DoneStage ==
    /\ pc = "done"
    /\ LET progress == IF Superseded THEN outbox
                       ELSE Append(outbox, Notification("progress", Cur.requestId,
                                                        "done", 100, <<>>))
           r == Bundle(Elements(nodes, edges), clusters, waves, scorecards)
       IN  /\ result' = <<r>>
           /\ outbox' = PostResult(progress, r)
    /\ pc' = "idle"
    /\ UNCHANGED <<validation, inbox, sent, activeRequestId, msg, run, cancelled, inFlightCancels,
                   locals, actorStats>>

-----------------------------------------------------------------------------
(* lib/validate.ts: validateLogs and sanitizeLogs.  A row has the five     *)
(* required fields as strings ("" for a missing one) and a bio that stands *)
(* for the fields the functions do not read.                               *)

PaddedT0 == " 1970-01-01T00:00:30Z "

\* String.prototype.trim on the strings of this model
Trim(s) ==
    CASE s = "  " -> ""
      [] s = PaddedT0 -> "1970-01-01T00:00:30Z"
      [] s = " a " -> "a"
      [] s = "t " -> "t"
      [] s = " follow" -> "follow"
      [] s = " x " -> "x"
      [] OTHER -> s

\* const timestamp = String(row.timestamp || '').trim(), and so on
Trimmed(row) ==
    [timestamp |-> Trim(row.timestamp), actor |-> Trim(row.actor),
     target |-> Trim(row.target), action |-> Trim(row.action),
     platform |-> Trim(row.platform)]

\* !ts || !actor || !target || !action || !platform
MissingRequired(row) ==
    LET t == Trimmed(row)
    IN  t.timestamp = "" \/ t.actor = "" \/ t.target = "" \/ t.action = ""
        \/ t.platform = ""

\* mutant of IsValidRow: the instant is not tested
IsValidRowAnyTime(row) == ~MissingRequired(row)

\* validateLogs: Boolean(ts && actor && target && action && platform &&
\* Number.isFinite(ms))
IsValidRow(row) ==
    ~MissingRequired(row) /\ DateParse(Trimmed(row).timestamp).finite

\* sanitizeLogs: neither continue is taken
IsKept(row) ==
    ~MissingRequired(row) /\ DateParse(Trimmed(row).timestamp).finite

\* mutant of CleanRow: the row is pushed as it came
CleanRowAsIs(row) == row

\* { ...row, timestamp, actor, target, action, platform }
CleanRow(row) ==
    [timestamp |-> Trim(row.timestamp), actor |-> Trim(row.actor),
     target |-> Trim(row.target), action |-> Trim(row.action),
     platform |-> Trim(row.platform), bio |-> row.bio]

Issue(level, message) == [level |-> level, message |-> message]

\* validateLogs; a message is written as its fixed text, without the count
ValidateLogs(logs) ==
    LET count(P(_)) == Len(SelectSeq(logs, P))
        when(c, issue) == IF c THEN <<issue>> ELSE <<>>
        missingRequired == count(MissingRequired)
        invalidTimestamps ==
            count(LAMBDA r : ~DateParse(Trimmed(r).timestamp).finite)
        emptyActors == count(LAMBDA r : Trimmed(r).actor = "")
        emptyTargets == count(LAMBDA r : Trimmed(r).target = "")
        emptyActions == count(LAMBDA r : Trimmed(r).action = "")
        emptyPlatforms == count(LAMBDA r : Trimmed(r).platform = "")
        validRows == count(IsValidRow)
        droppedRows == count(LAMBDA r : ~IsValidRow(r))
    IN  [ok |-> Len(logs) > 0 /\ validRows > 0,
         issues |->
             when(Len(logs) = 0, Issue("error", "No rows loaded."))
             \o when(missingRequired > 0, Issue("warn", "Missing required fields"))
             \o when(invalidTimestamps > 0, Issue("warn", "Invalid timestamp"))
             \o when(emptyActions > 0 /\ emptyActions < Len(logs),
                     Issue("warn", "Empty action"))
             \o when(emptyPlatforms > 0 /\ emptyPlatforms < Len(logs),
                     Issue("warn", "Empty platform")),
         stats |-> [rows |-> Len(logs), validRows |-> validRows,
                    droppedRows |-> droppedRows,
                    missingRequired |-> missingRequired,
                    invalidTimestamps |-> invalidTimestamps,
                    emptyActors |-> emptyActors, emptyTargets |-> emptyTargets,
                    emptyActions |-> emptyActions,
                    emptyPlatforms |-> emptyPlatforms]]

\* sanitizeLogs
SanitizeLogs(logs) ==
    LET kept == SelectSeq(logs, IsKept)
        valid == [i \in 1..Len(kept) |-> CleanRow(kept[i])]
        report == ValidateLogs(logs)
        issues == IF report.stats.droppedRows > 0
                  THEN Append(report.issues, Issue("warn", "Dropped invalid row(s)"))
                  ELSE report.issues
    IN  [logs |-> valid,
         report |-> IF Len(valid) = 0
                    THEN [ok |-> FALSE,
                          issues |-> <<Issue("error", "No valid rows to analyze")>>,
                          stats |-> report.stats]
                    ELSE [ok |-> report.ok, issues |-> issues,
                          stats |-> report.stats]]

\* a caller validates the rows
ValidateStep ==
    /\ validated = <<>>
    /\ validated' = <<ValidateLogs(raw)>>
    /\ UNCHANGED <<inbox, sent, activeRequestId, pc, msg, run, cancelled, inFlightCancels,
                   outbox, locals, actorStats, result, raw, sanitized>>

\* a caller sanitizes the rows
SanitizeStep ==
    /\ sanitized = <<>>
    /\ sanitized' = <<SanitizeLogs(raw)>>
    /\ UNCHANGED <<inbox, sent, activeRequestId, pc, msg, run, cancelled, inFlightCancels,
                   outbox, locals, actorStats, result, raw, validated>>

-----------------------------------------------------------------------------
(* Specifications *)

DefaultThreshold == Rat(3, 5)

InitWorker ==
    /\ inbox = <<>>
    /\ sent = 0
    /\ activeRequestId = None
    /\ pc = "idle"
    /\ msg = <<>>
    /\ run = 0
    /\ cancelled = {}
    /\ inFlightCancels = {}
    /\ outbox = <<>>
    /\ nodes = <<>> /\ edges = <<>> /\ clusters = <<>> /\ timeBins = <<>>
    /\ waves = <<>> /\ scorecards = <<>> /\ actorStats = <<>> /\ result = <<>>
    /\ raw = <<>> /\ validated = <<>> /\ sanitized = <<>>

T0 == "1970-01-01T00:00:30Z"
T1 == "1970-01-01T00:05:00Z"

\* logs the main thread sends in the worker specification: empty, one that
\* analyses to a wave, one with a timestamp that does not parse
EmptyLog == <<>>
GoodLog == <<Event(T0, "a", "t", "follow"), Event(T0, "b", "t", "follow")>>
BadLog == <<Event(T0, "a", "b", "follow"), Event(NotADate, "b", "a", "follow")>>
WorkerLogs == {EmptyLog, GoodLog, BadLog}
WorkerSettings == MkSettings(2, 5, 2, 2, DefaultThreshold)

WorkerMessages ==
    {AnalyzeMessage(id, l, WorkerSettings) : id \in RequestIds, l \in WorkerLogs}
    \cup {CancelMessage(id) : id \in RequestIds}

Run ==
    \/ HandleAnalyze
    \/ StartStage
    \/ ProfilesStage
    \/ GraphStage
    \/ ClustersStage
    \/ WavesStage
    \/ ScorecardsStage
    \/ DoneStage

Next ==
    \/ \E m \in WorkerMessages : Send(m)
    \/ HandleCancel
    \/ Run

Init == InitWorker
Spec == Init /\ [][Next]_vars

\* One run of analyzeLogs on a log over three ids: every follow between
\* them (self-directed, repeated and two-way ones included) and two
\* non-positive events, for every minimum cluster size 1..3
GraphIds == {"a", "b", "c"}
GraphEvents ==
    {Event(T0, x, y, "follow") : x \in GraphIds, y \in GraphIds}
    \cup {Event(T0, "a", "c", "unfollow"), Event(T0, "b", "b", "unfollow")}
GraphInputs(maxLen) ==
    {AnalyzeMessage("r1", l, MkSettings(m, 5, 2, 2, DefaultThreshold)) :
        l \in SeqsUpTo(GraphEvents, maxLen), m \in {1, 2, 3}}

InitOne(inputs) ==
    /\ inbox \in {<<m>> : m \in inputs}
    /\ sent = 1
    /\ activeRequestId = None
    /\ pc = "idle"
    /\ msg = <<>>
    /\ run = 0
    /\ cancelled = {}
    /\ inFlightCancels = {}
    /\ outbox = <<>>
    /\ nodes = <<>> /\ edges = <<>> /\ clusters = <<>> /\ timeBins = <<>>
    /\ waves = <<>> /\ scorecards = <<>> /\ actorStats = <<>> /\ result = <<>>
    /\ raw = <<>> /\ validated = <<>> /\ sanitized = <<>>

InitGraph == InitOne(GraphInputs(MaxLogLen))
SpecGraph == InitGraph /\ [][Run]_vars

\* One run on a log in which a, b and c follow t in one bin, and a and b
\* also act on another target, with another action and in another bin, for
\* wave thresholds 2 and 3
WaveEvents ==
    {Event(T0, x, "t", "follow") : x \in {"a", "b", "c"}}
    \cup {Event(T0, x, "u", "follow") : x \in {"a", "b"}}
    \cup {Event(T0, x, "t", "unfollow") : x \in {"a", "b"}}
    \cup {Event(T1, x, "t", "follow") : x \in {"a", "b"}}
    \cup {Event(T1, "c", "u", "unfollow")}
WaveInputs(maxLen) ==
    {AnalyzeMessage("r1", l, MkSettings(2, 5, c, n, DefaultThreshold)) :
        l \in SeqsUpTo(WaveEvents, maxLen), c \in {2, 3}, n \in {2, 3}}

InitWaves == InitOne(WaveInputs(MaxLogLen))
SpecWaves == InitWaves /\ [][Run]_vars

\* One run on a log whose rows carry profile fields: a, b and c follow t
\* with equal bios (up to case and spacing), shared, suspicious and
\* phishing-like links, creation instants before and after the first
\* sighting, a second bin and an unfollow; and on a log that repeats one
\* unfollow up to MaxRepeat times.  The threshold is 0, 0.15 or 0.6.
TNew == "1969-12-31T23:59:59Z"
ScoreEvents ==
    {Event(T0, "a", "t", "follow"), Event(T0, "b", "t", "follow"),
     Event(T0, "a", "b", "unfollow"), Event(T1, "c", "t", "follow"),
     EventProfile(T0, "a", "t", "follow", "", "gm", <<SusLink>>),
     EventProfile(T0, "b", "t", "follow", "", "GM ", <<SusLink, SusLink>>),
     EventProfile(T0, "c", "t", "follow", "", "gm", <<PhishLink>>),
     EventProfile(T0, "c", "t", "unfollow", "", BioWithLink, <<>>),
     EventCreated(T0, "b", "t", "follow", TNew),
     EventCreated(T0, "a", "t", "follow", T1)}
RepeatedLogs(maxRepeat) ==
    {[i \in 1..k |-> Event(T0, "a", "b", "unfollow")] : k \in 1..maxRepeat}
ScoreThresholds == {Zero, Rat(3, 20), DefaultThreshold}
ScoreInputs(maxLen, maxRepeat) ==
    {AnalyzeMessage("r1", l, MkSettings(2, 5, 2, 2, thr)) :
        l \in SeqsUpTo(ScoreEvents, maxLen) \cup RepeatedLogs(maxRepeat),
        thr \in ScoreThresholds}

InitScore == InitOne(ScoreInputs(MaxLogLen, MaxRepeat))
SpecScore == InitScore /\ [][Run]_vars

\* One run on a log whose events fall before the epoch, inside a minute, on
\* a minute boundary and after it, for bins of 1 minute (timeBinMinutes 0
\* and 1) and 5 minutes and wave thresholds from 0 to 2
TBoundary == "1970-01-01T00:01:00.000Z"
TAfter == "1970-01-01T00:01:10Z"
BinEvents ==
    {Event(ts, x, "t", "follow") : ts \in {TNew, T0, TBoundary, TAfter}, x \in {"a", "b"}}
BinSettings ==
    {MkSettings(2, 0, 0, 1, DefaultThreshold), MkSettings(2, 1, 1, 1, DefaultThreshold),
     MkSettings(2, 5, 2, 2, DefaultThreshold), MkSettings(2, 5, 3, 1, DefaultThreshold)}
BinInputs(maxLen) ==
    {AnalyzeMessage("r1", l, st) : l \in SeqsUpTo(BinEvents, maxLen), st \in BinSettings}

InitBins == InitOne(BinInputs(MaxLogLen))
SpecBins == InitBins /\ [][Run]_vars

\* One run on a log in which a and b act in one bin on three (action,
\* target) pairs, two of which read the same when joined by a colon, and
\* follow t in a second bin, for wave thresholds 1 and 2
BurstEvents ==
    {Event(T0, x, "x:y", "like") : x \in {"a", "b"}}
    \cup {Event(T0, x, "y", "like:x") : x \in {"a", "b"}}
    \cup {Event(T0, x, "t", "follow") : x \in {"a", "b"}}
    \cup {Event(T1, x, "t", "follow") : x \in {"a", "b"}}
BurstInputs(maxLen) ==
    {AnalyzeMessage("r1", l, MkSettings(2, 5, c, c, DefaultThreshold)) :
        l \in SeqsUpTo(BurstEvents, maxLen), c \in {1, 2}}

InitBurst == InitOne(BurstInputs(MaxLogLen))
SpecBurst == InitBurst /\ [][Run]_vars

\* One run on a log in which b follows t 30 s and 5 min after the epoch
\* and states its creation instant as absent, unparsable, at the epoch, 1 s
\* before it, after the first sighting, and 7 days (less 0 and 1 s) before
\* the first sighting
TEpoch == "1970-01-01T00:00:00.000Z"
TWeekBefore == "1969-12-25T00:00:30Z"
TWeekBeforeLess == "1969-12-25T00:00:29Z"
AgeEvents ==
    {EventCreated(T0, "b", "t", "follow", c) :
        c \in {"", NotADate, TEpoch, TNew, T1, TWeekBefore, TWeekBeforeLess}}
    \cup {EventCreated(T1, "b", "t", "follow", c) : c \in {"", TNew}}
AgeInputs(maxLen) ==
    {AnalyzeMessage("r1", l, MkSettings(2, 5, 2, 2, DefaultThreshold)) :
        l \in SeqsUpTo(AgeEvents, maxLen)}

InitAge == InitOne(AgeInputs(MaxLogLen))
SpecAge == InitAge /\ [][Run]_vars

\* The two functions of lib/validate.ts on rows that are valid, valid once
\* trimmed, or have one required field blank, empty or, for the timestamp,
\* unparsable
Row(ts, actor, target, action, platform, bio) ==
    [timestamp |-> ts, actor |-> actor, target |-> target, action |-> action,
     platform |-> platform, bio |-> bio]
RawRows ==
    {Row(ts, "a", "t", "follow", "x", "") : ts \in {T0, PaddedT0, NotADate, "", "  "}}
    \cup {Row(T0, x, "t", "follow", "x", "") : x \in {" a ", "  ", "b"}}
    \cup {Row(T0, "a", x, "follow", "x", "") : x \in {"t ", ""}}
    \cup {Row(T0, "a", "t", x, "x", "") : x \in {" follow", "  "}}
    \cup {Row(T0, "a", "t", "follow", x, "") : x \in {" x ", ""}}
    \cup {Row(T0, "a", "t", "follow", "x", " gm ")}
RawLogs(maxLen) == SeqsUpTo(RawRows, maxLen)

InitValidate ==
    /\ inbox = <<>>
    /\ sent = 0
    /\ activeRequestId = None
    /\ pc = "idle"
    /\ msg = <<>>
    /\ run = 0
    /\ cancelled = {}
    /\ inFlightCancels = {}
    /\ outbox = <<>>
    /\ nodes = <<>> /\ edges = <<>> /\ clusters = <<>> /\ timeBins = <<>>
    /\ waves = <<>> /\ scorecards = <<>> /\ actorStats = <<>> /\ result = <<>>
    /\ raw \in RawLogs(MaxLogLen)
    /\ validated = <<>> /\ sanitized = <<>>
NextValidate == ValidateStep \/ SanitizeStep
SpecValidate == InitValidate /\ [][NextValidate]_vars

-----------------------------------------------------------------------------
(* Reference notions the properties are stated with *)

\* analyzeLogs has returned to the handler of the message in msg
Returned == pc = "idle" /\ msg # <<>> /\ result # <<>>
\* the handler of the message in msg ended in its catch clause
Faulted == pc = "idle" /\ msg # <<>> /\ result = <<>>
Res == result[1]

RefNodes(logs) ==
    {logs[i].actor : i \in 1..Len(logs)} \cup {logs[i].target : i \in 1..Len(logs)}

\* u and v are joined by a positive-action event, in either direction
Linked(logs, settings, u, v) ==
    \E i \in 1..Len(logs) :
        /\ Includes(settings.positiveActions, logs[i].action)
        /\ \/ logs[i].actor = u /\ logs[i].target = v
           \/ logs[i].actor = v /\ logs[i].target = u

RECURSIVE Closure(_, _, _)
\* the nodes reachable from S over Linked
Closure(logs, settings, S) ==
    LET T == S \cup {v \in RefNodes(logs) : \E u \in S : Linked(logs, settings, u, v)}
    IN  IF T = S THEN S ELSE Closure(logs, settings, T)

RefComponents(logs, settings) ==
    {Closure(logs, settings, {n}) : n \in RefNodes(logs)}

NoDuplicates(s) == Cardinality(Range(s)) = Len(s)

\* the bucket, action, target triple of an event whose timestamp parses
TripleOf(log, settings) ==
    <<ToISOString(BinOf(DateParse(log.timestamp).v, BinSizeMs(settings))),
      log.action, log.target>>

AllParse(logs) == \A i \in 1..Len(logs) : DateParse(logs[i].timestamp).finite

EventsOf(logs, settings, triple) ==
    {i \in 1..Len(logs) : TripleOf(logs[i], settings) = triple}

ActorsOf(logs, settings, triple) ==
    {logs[i].actor : i \in EventsOf(logs, settings, triple)}

RefWaveTriples(logs, settings) ==
    {tr \in {TripleOf(logs[i], settings) : i \in 1..Len(logs)} :
        /\ Cardinality(EventsOf(logs, settings, tr)) >= settings.waveMinCount
        /\ Cardinality(ActorsOf(logs, settings, tr)) >= settings.waveMinActors}

-----------------------------------------------------------------------------
(* Properties *)

\* C1: the clusters analyzeLogs returns are exactly the connected components
\* (over the undirected positive-action adjacency) with at least
\* minClusterSize nodes: each such component is the member set of exactly one
\* cluster, member lists have no duplicates, clusters are pairwise disjoint,
\* and no node of a smaller component is in any cluster.
C1_ClustersAreLargeComponents ==
    Returned =>
        LET cs == Res.clusters
            big == {C \in RefComponents(Cur.logs, Cur.settings) :
                       Cardinality(C) >= Cur.settings.minClusterSize}
        IN  /\ \A i \in 1..Len(cs) : NoDuplicates(cs[i].members)
            /\ {Range(cs[i].members) : i \in 1..Len(cs)} = big
            /\ Len(cs) = Cardinality(big)
            /\ \A i, j \in 1..Len(cs) :
                   i # j => Range(cs[i].members) \cap Range(cs[j].members) = {}
            /\ \A n \in RefNodes(Cur.logs) :
                   Cardinality(Closure(Cur.logs, Cur.settings, {n})) < Cur.settings.minClusterSize
                       => \A i \in 1..Len(cs) : n \notin Range(cs[i].members)

\* a run that returned a cluster of two or more members while another node,
\* in a component below the threshold, is left out
C1_Witness ==
    /\ Returned
    /\ \E i \in 1..Len(Res.clusters) : Len(Res.clusters[i].members) >= 2
    /\ \E n \in RefNodes(Cur.logs) :
           \A i \in 1..Len(Res.clusters) : n \notin Range(Res.clusters[i].members)

NodeIds(els) == SelectSeq(els, LAMBDA e : e.group = "nodes")

\* C2: for a non-empty log the node elements returned are the union of the
\* actor ids and the target ids, one node per distinct id, whether or not
\* the id occurs in a positive-action event.
C2_NodesAreActorsAndTargets ==
    (Returned /\ Cur.logs # <<>>) =>
        LET ns == NodeIds(Res.elements)
        IN  /\ {ns[i].id : i \in 1..Len(ns)} = RefNodes(Cur.logs)
            /\ Len(ns) = Cardinality(RefNodes(Cur.logs))

\* a returned run with a node that is only ever the target of a
\* non-positive event
C2_Witness ==
    /\ Returned
    /\ \E n \in RefNodes(Cur.logs) :
           /\ \A i \in 1..Len(Cur.logs) : Cur.logs[i].actor # n
           /\ \A i \in 1..Len(Cur.logs) :
                  Cur.logs[i].target = n =>
                      ~Includes(Cur.settings.positiveActions, Cur.logs[i].action)
           /\ \E i \in 1..Len(Res.elements) :
                  Res.elements[i].group = "nodes" /\ Res.elements[i].id = n

\* C3: for a log whose timestamps all parse, the waves are exactly the
\* (bucket, action, target) triples with at least waveMinCount events and at
\* least waveMinActors distinct actors, one wave per triple, whose actor
\* list is the triple's distinct-actor set.
C3_WavesAreQualifyingTriples ==
    (Returned /\ AllParse(Cur.logs)) =>
        LET ws == Res.waves
            key(w) == <<w.windowStart, w.action, w.target>>
        IN  /\ {key(ws[i]) : i \in 1..Len(ws)} = RefWaveTriples(Cur.logs, Cur.settings)
            /\ Len(ws) = Cardinality(RefWaveTriples(Cur.logs, Cur.settings))
            /\ \A i \in 1..Len(ws) :
                   /\ Range(ws[i].actors) = ActorsOf(Cur.logs, Cur.settings, key(ws[i]))
                   /\ NoDuplicates(ws[i].actors)

\* a, b and c each follow t in one 5-minute bin with waveMinCount = 3 and
\* waveMinActors = 3: one wave with actors {a, b, c}
C3_Witness ==
    /\ Returned
    /\ Cur.settings.waveMinCount = 3 /\ Cur.settings.waveMinActors = 3
    /\ Cur.settings.timeBinMinutes = 5
    /\ Len(Res.waves) = 1
    /\ Res.waves[1].action = "follow" /\ Res.waves[1].target = "t"
    /\ Range(Res.waves[1].actors) = {"a", "b", "c"}

\* C4: every reported cluster has 0 <= density <= 1 and 0 <= conductance <= 1
\* (violated: repeated and two-way events are not collapsed in the adjacency).
C4_DensityConductanceInUnit ==
    Returned =>
        \A i \in 1..Len(Res.clusters) :
            InUnit(Res.clusters[i].density) /\ InUnit(Res.clusters[i].conductance)

\* C5: every sub-score entering the composite lies in [0,1], and so does
\* sybilScore (violated: clusterIsolationScore goes below 0 when a node's
\* adjacency list is longer than its cluster).
C5_SubScoresInUnit ==
    Returned =>
        \A i \in 1..Len(Res.scorecards) :
            LET sc == Res.scorecards[i]
            IN  /\ InUnit(sc.coordinationScore)
                /\ InUnit(RatMin(Rat(sc.churnScore, 10), One))
                /\ InUnit(sc.clusterIsolationScore)
                /\ InUnit(sc.newAccountScore)
                /\ InUnit(sc.lowDiversityScore)
                /\ InUnit(sc.profileAnomalyScore)
                /\ InUnit(sc.sybilScore)

\* the checkpoints of analyzeLogs, in the order of its report calls
Checkpoints ==
    <<[stage |-> "start", pct |-> 0], [stage |-> "profiles", pct |-> 15],
      [stage |-> "graph", pct |-> 30], [stage |-> "clusters", pct |-> 45],
      [stage |-> "waves", pct |-> 60], [stage |-> "scorecards", pct |-> 90],
      [stage |-> "done", pct |-> 100]>>

\* what the worker posted while handling the r-th analyze message
NotesOfRun(r) == SelectSeq(outbox, LAMBDA n : n.run = r)

IsCheckpoint(n, k) ==
    /\ n.type = "progress"
    /\ n.stage = Checkpoints[k].stage
    /\ n.pct = Checkpoints[k].pct

Terminal(n) == n.type = "result" \/ n.type = "error"

\* C6: a run on a non-empty log that completes without a fault posts, for
\* its request id, the progress notifications start(0), profiles(15),
\* graph(30), clusters(45), waves(60), scorecards(90), done(100), each once
\* and in that order, all before the result notification.
C6_CheckpointsInOrderBeforeResult ==
    (Returned /\ Cur.logs # <<>>) =>
        LET ns == NotesOfRun(run)
        IN  /\ Len(ns) = Len(Checkpoints) + 1
            /\ \A k \in 1..Len(Checkpoints) :
                   IsCheckpoint(ns[k], k) /\ ns[k].requestId = Cur.requestId
            /\ ns[Len(ns)].type = "result"
            /\ ns[Len(ns)].requestId = Cur.requestId

\* a completed run on a non-empty log, after an earlier run
C6_Witness == Returned /\ Cur.logs # <<>> /\ run >= 2

\* C7: every analyze request handled to completion has exactly one terminal
\* notification, a result or an error, and it is the last notification of
\* that run; a run still in progress has none.
C7_ExactlyOneTerminal ==
    \A r \in 1..run :
        LET ns == NotesOfRun(r)
            T == {k \in 1..Len(ns) : Terminal(ns[k])}
        IN  IF r < run \/ pc = "idle"
            THEN Len(ns) >= 1 /\ T = {Len(ns)}
            ELSE T = {}

\* two completed runs, one ended by a result and one by an error
C7_Witness ==
    /\ pc = "idle"
    /\ \E k \in 1..Len(outbox) : outbox[k].type = "result"
    /\ \E k \in 1..Len(outbox) : outbox[k].type = "error"

\* C8: handling a cancel whose id is the active id clears the cell, and from
\* then on no notification of that id is posted until an analyze message
\* with that id is handled (cancelled holds exactly the ids in that period).
C8_NoNotificationAfterCancel ==
    [][/\ (/\ pc = "idle" /\ inbox # <<>> /\ Head(inbox).type = "cancel"
           /\ Head(inbox).requestId = activeRequestId
           /\ inbox' = Tail(inbox) /\ sent' = sent)
              => activeRequestId' = None
       /\ \A id \in cancelled' : activeRequestId' # id
       /\ \A k \in (Len(outbox) + 1)..Len(outbox') :
              outbox'[k].requestId \notin cancelled]_vars

\* an id that had notifications posted was cancelled, and a run of another
\* id is under way
C8_Witness ==
    /\ pc = "done"
    /\ \E id \in cancelled : \E k \in 1..Len(outbox) : outbox[k].requestId = id

\* C9: when a stage of analyzeLogs throws, the run's output is the
\* checkpoints reported before the fault followed by exactly one error
\* notification carrying a message for the request id, and no result.
C9_FaultPostsOneError ==
    Faulted =>
        LET ns == NotesOfRun(run)
        IN  /\ Len(ns) >= 1
            /\ ns[Len(ns)].type = "error"
            /\ ns[Len(ns)].requestId = Cur.requestId
            /\ ns[Len(ns)].payload # ""
            /\ Len(ns) - 1 <= Len(Checkpoints)
            /\ \A k \in 1..(Len(ns) - 1) : IsCheckpoint(ns[k], k)

\* a run that ended in the catch clause after reporting checkpoints
C9_Witness ==
    /\ Faulted
    /\ Len(NotesOfRun(run)) >= 2
    /\ NotesOfRun(run)[1].type = "progress"

\* C10: a log with an unparsable timestamp does not fail the run: a result is
\* returned and posted, the event is in no time bucket, and it still counts
\* toward its actor's total actions (violated: toISOString throws on the
\* invalid date and the run ends with an error notification).
C10_BadTimestampTolerated ==
    (pc = "idle" /\ msg # <<>> /\ ~AllParse(Cur.logs)) =>
        /\ result # <<>>
        /\ \A k \in 1..Len(NotesOfRun(run)) : NotesOfRun(run)[k].type # "error"
        /\ SumSeq([k \in 1..Len(Groups(timeBins)) |-> Groups(timeBins)[k].info.count])
               = Cardinality({i \in 1..Len(Cur.logs) :
                                 DateParse(Cur.logs[i].timestamp).finite})
        /\ \A k \in 1..Len(actorStats) :
               actorStats[k].totalActions
                   = Cardinality({i \in 1..Len(Cur.logs) :
                                     Cur.logs[i].actor = actorStats[k].actor})

-----------------------------------------------------------------------------
(* Thresholds and single-actor scores *)

\* the (bucket, action, target) triples of a wave list
WaveTriples(ws) ==
    {<<ws[i].windowStart, ws[i].action, ws[i].target>> : i \in 1..Len(ws)}

\* the thresholds the run's own pair is compared with
OtherThresholds == 1..4

\* the wave detection of lines 223-239 over the run's time bins with the
\* thresholds replaced by c and n
WavesUnder(c, n) ==
    WavesOf(timeBins, [Cur.settings EXCEPT !.waveMinCount = c, !.waveMinActors = n])

\* C11: for a fixed log and bin width, raising waveMinCount and waveMinActors
\* (each to a value at least as large) can only remove waves: the triples
\* detected under the larger pair are among those detected under the
\* smaller pair.
C11_WavesMonotoneInThresholds ==
    Returned =>
        \A c \in OtherThresholds, n \in OtherThresholds :
            /\ (c >= Cur.settings.waveMinCount /\ n >= Cur.settings.waveMinActors)
                   => WaveTriples(WavesUnder(c, n)) \subseteq WaveTriples(Res.waves)
            /\ (c <= Cur.settings.waveMinCount /\ n <= Cur.settings.waveMinActors)
                   => WaveTriples(Res.waves) \subseteq WaveTriples(WavesUnder(c, n))

\* three events by a and b on one triple: a wave under (2, 2) that is kept
\* under (3, 2) and removed under (4, 2) and under (2, 3)
C11_Witness ==
    /\ Returned
    /\ Cur.settings.waveMinCount = 2 /\ Cur.settings.waveMinActors = 2
    /\ Len(Res.waves) = 1
    /\ WaveTriples(WavesUnder(3, 2)) = WaveTriples(Res.waves)
    /\ WavesUnder(4, 2) = <<>>
    /\ WavesUnder(2, 3) = <<>>

\* the nodes that are the actor of no row of the log
ZeroActionNodes ==
    {n \in RefNodes(Cur.logs) : \A i \in 1..Len(Cur.logs) : Cur.logs[i].actor # n}

\* the scorecard of node n in the returned bundle
CardOf(n) ==
    Res.scorecards[CHOOSE i \in 1..Len(Res.scorecards) : Res.scorecards[i].actor = n]

\* the size of the reported cluster n is a member of, 0 when there is none
ReportedClusterSize(n) ==
    IF \E i \in 1..Len(Res.clusters) : n \in Range(Res.clusters[i].members)
    THEN Len(Res.clusters[CHOOSE i \in 1..Len(Res.clusters) :
                 n \in Range(Res.clusters[i].members)].members)
    ELSE 0

\* C12 (as stated): every node that performs zero actions gets
\* lowDiversityScore = 0 and clusterIsolationScore = 0, whatever cluster it
\* belongs to.
C12_ZeroActionScoresAreZero ==
    Returned =>
        \A n \in ZeroActionNodes :
            /\ CardOf(n).lowDiversityScore = Zero
            /\ CardOf(n).clusterIsolationScore = Zero

\* C12 (amended): every node that performs zero actions gets
\* lowDiversityScore = 0; its clusterIsolationScore is 0 when it is in no
\* reported cluster and 1 - connections/clusterSize when it is in one.
C12_ZeroActionScores ==
    Returned =>
        \A n \in ZeroActionNodes :
            /\ CardOf(n).lowDiversityScore = Zero
            /\ CardOf(n).clusterIsolationScore =
                   IF ReportedClusterSize(n) = 0 THEN Zero
                   ELSE RatSub(One, Rat(Len(Adjacency(nodes, edges)[n]),
                                        ReportedClusterSize(n)))

\* a follows b and b follows c: c performs nothing, is in the cluster of
\* three with one connection, and scores 2/3; under minClusterSize 3 a lone
\* pair is no cluster and its target scores 0
C12_Witness ==
    /\ Returned
    /\ \E n \in ZeroActionNodes :
           /\ ReportedClusterSize(n) = 3
           /\ CardOf(n).clusterIsolationScore = Rat(2, 3)
           /\ CardOf(n).lowDiversityScore = Zero

-----------------------------------------------------------------------------
(* Cluster density of mutual follows; the empty log *)

\* u follows v: a positive-action row with actor u and target v
Follows(logs, settings, u, v) ==
    \E i \in 1..Len(logs) :
        /\ Includes(settings.positiveActions, logs[i].action)
        /\ logs[i].actor = u /\ logs[i].target = v

\* every member of K follows every other member
CompleteMutual(logs, settings, K) ==
    \A u \in K, v \in K : u # v => Follows(logs, settings, u, v)

\* the two-member subsets of K joined by a positive-action event
ConnectedPairs(logs, settings, K) ==
    {P \in SUBSET K : Cardinality(P) = 2 /\
        \E u \in P, v \in P : u # v /\ Linked(logs, settings, u, v)}

\* C13: a component whose members are completely connected by mutual
\* follows, with minClusterSize equal to its size, is reported as exactly
\* one cluster with density 1 and conductance 0; in general a cluster's
\* density is its number of connected member pairs over size(size-1)/2
\* (violated: each event adds an adjacency entry, so a mutual pair counts
\* as two internal edges).
C13_CompleteMutualDensityOne ==
    Returned =>
        /\ \A K \in RefComponents(Cur.logs, Cur.settings) :
               (/\ Cardinality(K) >= 2
                /\ Cardinality(K) = Cur.settings.minClusterSize
                /\ CompleteMutual(Cur.logs, Cur.settings, K))
               => /\ Cardinality({i \in 1..Len(Res.clusters) :
                          Range(Res.clusters[i].members) = K}) = 1
                  /\ \A i \in 1..Len(Res.clusters) :
                         Range(Res.clusters[i].members) = K
                         => /\ Res.clusters[i].density = One
                            /\ Res.clusters[i].conductance = Zero
        /\ \A i \in 1..Len(Res.clusters) :
               LET K == Range(Res.clusters[i].members)
                   size == Cardinality(K)
               IN  size >= 2 =>
                       Res.clusters[i].density =
                           Rat(2 * Cardinality(ConnectedPairs(Cur.logs, Cur.settings, K)),
                               size * (size - 1))

\* C14: for an empty event sequence analyzeLogs returns the empty bundle at
\* once; start(0%) is the only checkpoint it reports, so the worker posts
\* that progress notification and then the result, and no stage after
\* start is entered.
C14_EmptyLogReturnsEmptyBundle ==
    (pc # "idle" /\ Cur.logs = <<>> => pc = "start")
    /\ ((Returned /\ Cur.logs = <<>>) =>
           LET ns == NotesOfRun(run)
           IN  /\ Res = Bundle(<<>>, <<>>, <<>>, <<>>)
               /\ Len(ns) = 2
               /\ ns[1].type = "progress" /\ ns[1].stage = "start" /\ ns[1].pct = 0
               /\ ns[1].requestId = Cur.requestId
               /\ ns[2].type = "result" /\ ns[2].payload = Res
               /\ ns[2].requestId = Cur.requestId)

\* an empty log analysed after another run has posted its notifications
C14_Witness ==
    /\ Returned /\ Cur.logs = <<>> /\ run >= 2
    /\ Len(outbox) > Len(NotesOfRun(run))

-----------------------------------------------------------------------------
(* Reasons *)

\* the fixed order of the reasons
ReasonOrder ==
    <<"Score", "High coordination", "High churn", "Cluster isolation",
      "Low target diversity", "Suspicious link domains", "Phishing-like URLs",
      "Shared links with others", "Repeated bio text", "Handle pattern similarity",
      "New account (<7 days)">>

\* C15: an actor is flagged exactly when sybilScore > settings.threshold,
\* strictly: the score reason is the first entry of reasons iff the score
\* is above the threshold, and is nowhere else in the list; a score equal
\* to the threshold is not flagged.
C15_FlaggedIffAboveThreshold ==
    Returned =>
        \A i \in 1..Len(Res.scorecards) :
            LET sc == Res.scorecards[i]
                flagged == sc.reasons # <<>> /\ sc.reasons[1] = "Score"
            IN  /\ flagged <=> RatLt(Cur.settings.threshold, sc.sybilScore)
                /\ \A k \in 2..Len(sc.reasons) : sc.reasons[k] # "Score"
                /\ flagged <=>
                       sc \in Range(FlaggedScorecards(Res.scorecards, Cur.settings))

\* a scorecard whose score equals a threshold of 0.15 beside one whose score
\* is above it
C15_Witness ==
    /\ Returned
    /\ Cur.settings.threshold = Rat(3, 20)
    /\ \E i \in 1..Len(Res.scorecards) :
           /\ Res.scorecards[i].sybilScore = Cur.settings.threshold
           /\ "Score" \notin Range(Res.scorecards[i].reasons)
    /\ \E i \in 1..Len(Res.scorecards) :
           /\ RatLt(Cur.settings.threshold, Res.scorecards[i].sybilScore)
           /\ Res.scorecards[i].reasons[1] = "Score"

\* the condition of the k-th reason of ReasonOrder, read off scorecard sc
ReasonHolds(sc, k) ==
    CASE k = 1 -> RatLt(Cur.settings.threshold, sc.sybilScore)
      [] k = 2 -> RatLeq(Rat(1, 2), sc.coordinationScore)
      [] k = 3 -> sc.churnScore >= 5
      [] k = 4 -> /\ RatLeq(Rat(1, 2), sc.clusterIsolationScore)
                  /\ ReportedClusterSize(sc.actor) >= Cur.settings.minClusterSize
      [] k = 5 -> RatLeq(Rat(7, 10), sc.lowDiversityScore)
      [] k = 6 -> sc.suspiciousLinks # <<>>
      [] k = 7 -> RatLt(Zero, sc.phishingLinkScore)
      [] k = 8 -> sc.sharedLinks # <<>>
      [] k = 9 -> RatLeq(Rat(2, 5), sc.bioSimilarityScore)
      [] k = 10 -> RatLeq(Rat(2, 5), sc.handlePatternScore)
      [] OTHER -> sc.newAccountScore = One

\* C16: the reasons of every scorecard are the reasons of the fixed order
\* whose own condition holds, each once, in that order.
C16_ReasonsInFixedOrder ==
    Returned =>
        \A i \in 1..Len(Res.scorecards) :
            LET sc == Res.scorecards[i]
            IN  sc.reasons =
                    Concat([k \in 1..Len(ReasonOrder) |->
                        IF ReasonHolds(sc, k) THEN <<ReasonOrder[k]>> ELSE <<>>])

\* a scorecard with five reasons from both ends of the order, beside one
\* with none
C16_Witness ==
    /\ Returned
    /\ \E i \in 1..Len(Res.scorecards) : Len(Res.scorecards[i].reasons) >= 5
    /\ \E i \in 1..Len(Res.scorecards) : Res.scorecards[i].reasons = <<>>

-----------------------------------------------------------------------------
(* Scorecards and nodes; cancellation in flight; the adjacency *)

\* C17: for a non-empty log there is exactly one scorecard per node: the
\* scorecard actor ids are the node set, actors and targets alike, and no
\* id has two scorecards.
C17_OneScorecardPerNode ==
    (Returned /\ Cur.logs # <<>>) =>
        /\ {Res.scorecards[i].actor : i \in 1..Len(Res.scorecards)} = RefNodes(Cur.logs)
        /\ Len(Res.scorecards) = Cardinality(RefNodes(Cur.logs))

\* three nodes, one of them a target only and one acting twice
C17_Witness ==
    /\ Returned
    /\ Cardinality(RefNodes(Cur.logs)) = 3
    /\ ZeroActionNodes # {}
    /\ \E i \in 1..Len(actorStats) : actorStats[i].totalActions = 2
    /\ Len(Res.scorecards) = 3

\* C18: a cancel for the active id that is posted while the run of that id
\* is in flight takes effect at the next checkpoint: from then on the run
\* posts no progress, result or error notification for that id (violated:
\* the handler runs to completion, so the cancel is taken up only after the
\* run has posted everything).
C18_InFlightCancelTakesEffect ==
    [][\A k \in (Len(outbox) + 1)..Len(outbox') :
           outbox'[k].requestId \notin inFlightCancels]_vars

\* C19: in the adjacency used for clustering and degree, repeated positive
\* events between the same two nodes, in either direction, are one entry:
\* no neighbour list holds a neighbour twice, and a node's degree is its
\* number of distinct neighbours (violated: every event pushes an entry
\* onto both lists).
C19_AdjacencyCollapsesRepeats ==
    Returned =>
        /\ \A n \in Range(nodes) : NoDuplicates(Adjacency(nodes, edges)[n])
        /\ \A i \in 1..Len(actorStats) :
               actorStats[i].connections =
                   Cardinality({v \in RefNodes(Cur.logs) :
                       Linked(Cur.logs, Cur.settings, actorStats[i].actor, v)})

\* C20: every progress, result or error notification carries the request id
\* of the analyze message being handled, and when it is posted the
\* active-request cell holds that id; the cell holds one id or none.
C20_NotificationsCarryActiveId ==
    [][/\ \A k \in (Len(outbox) + 1)..Len(outbox') :
              /\ pc # "idle"
              /\ outbox'[k].requestId = Cur.requestId
              /\ outbox'[k].requestId = activeRequestId
              /\ outbox'[k].type \in {"progress", "result", "error"}
       /\ activeRequestId' \in RequestIds \cup {None}]_vars

\* notifications of two request ids have been posted, the second run after
\* a cancel of the first id
C20_Witness ==
    /\ \E k \in 1..Len(outbox) : outbox[k].requestId = "r1"
    /\ \E k \in 1..Len(outbox) : outbox[k].requestId = "r2"
    /\ cancelled # {}

-----------------------------------------------------------------------------
(* Wave intensity and window *)

\* the instant of a timestamp that parses
TimeOf(ts) == DateParse(ts).v

\* the rows of the log with wave w's action and target whose instant lies
\* in w's window, start included and end excluded
RowsInWindow(logs, w) ==
    {i \in 1..Len(logs) :
        /\ logs[i].action = w.action /\ logs[i].target = w.target
        /\ TimeOf(w.windowStart) <= TimeOf(logs[i].timestamp)
        /\ TimeOf(logs[i].timestamp) < TimeOf(w.windowEnd)}

\* C21: every reported wave's intensity is its event count divided by
\* max(1, waveMinCount); a wave whose count equals waveMinCount >= 1 has
\* intensity 1.
C21_IntensityIsCountOverMinCount ==
    (Returned /\ AllParse(Cur.logs)) =>
        \A i \in 1..Len(Res.waves) :
            LET w == Res.waves[i]
                count == Cardinality(EventsOf(Cur.logs, Cur.settings,
                             <<w.windowStart, w.action, w.target>>))
                minCount == Cur.settings.waveMinCount
            IN  /\ w.zScore = Rat(count, IF minCount >= 1 THEN minCount ELSE 1)
                /\ (minCount >= 1 /\ count = minCount) => w.zScore = One

\* three events under waveMinCount = 3: a wave of intensity exactly 1
C21_Witness ==
    /\ Returned
    /\ Cur.settings.waveMinCount = 3
    /\ \E i \in 1..Len(Res.waves) :
           /\ Res.waves[i].zScore = One
           /\ Cardinality(RowsInWindow(Cur.logs, Res.waves[i])) = 3

\* C22: for every reported wave, with binSizeMs = max(1, timeBinMinutes) *
\* 60000: windowStart is a multiple of binSizeMs, windowEnd is windowStart +
\* binSizeMs, and the events counted in the wave are the events of its
\* action and target with windowStart <= time < windowEnd, for times
\* before the epoch too.
C22_WindowIsOneBucket ==
    (Returned /\ AllParse(Cur.logs)) =>
        LET minutes == Cur.settings.timeBinMinutes
            binSizeMs == (IF minutes >= 1 THEN minutes ELSE 1) * 60000
        IN  \A i \in 1..Len(Res.waves) :
                LET w == Res.waves[i]
                    rows == RowsInWindow(Cur.logs, w)
                IN  /\ DateParse(w.windowStart).finite /\ DateParse(w.windowEnd).finite
                    /\ TimeOf(w.windowStart) % binSizeMs = 0
                    /\ TimeOf(w.windowEnd) = TimeOf(w.windowStart) + binSizeMs
                    /\ rows = EventsOf(Cur.logs, Cur.settings,
                                  <<w.windowStart, w.action, w.target>>)
                    /\ Range(w.actors) = {Cur.logs[k].actor : k \in rows}
                    /\ w.zScore = Rat(Cardinality(rows),
                                      Max(1, Cur.settings.waveMinCount))

\* a wave in the minute before the epoch that holds the event at -1 s, and
\* a log with an event on a minute boundary that starts a wave
C22_Witness ==
    /\ Returned
    /\ \E i \in 1..Len(Res.waves) :
           /\ TimeOf(Res.waves[i].windowStart) = -60000
           /\ TimeOf(Res.waves[i].windowEnd) = 0
           /\ Cardinality(RowsInWindow(Cur.logs, Res.waves[i])) >= 2
    /\ \E i \in 1..Len(Res.waves) :
           /\ Res.waves[i].windowStart = TBoundary
           /\ \E k \in 1..Len(Cur.logs) : Cur.logs[k].timestamp = TBoundary

-----------------------------------------------------------------------------
(* Burst count, reciprocity, account age *)

\* the reported waves whose actor list contains node n
WavesWith(n) == {i \in 1..Len(Res.waves) : n \in Range(Res.waves[i].actors)}

\* C23: for every node the burst count is the number of reported waves
\* whose actor list contains it, and coordinationScore is
\* min(burstCount / totalActions, 1), or 0 without actions (violated: the
\* waves of a node are collected under the bucket, action and target joined
\* by colons, which is one key for two waves when the labels hold a colon).
C23_BurstCountIsWaveCount ==
    Returned =>
        \A i \in 1..Len(actorStats) :
            LET st == actorStats[i]
                sc == CardOf(st.actor)
                waveCount == Cardinality(WavesWith(st.actor))
            IN  /\ st.burstActions = waveCount
                /\ sc.coordinationScore =
                       IF st.totalActions = 0 THEN Zero
                       ELSE RatMin(Rat(waveCount, st.totalActions), One)

\* C28: for a log whose timestamps all parse, no node's burst count (the
\* number of distinct waves it takes part in) exceeds its number of actions,
\* so coordinationScore is burstCount / totalActions, uncapped, whenever the
\* node has actions.
C28_BurstAtMostActions ==
    (Returned /\ AllParse(Cur.logs)) =>
        \A i \in 1..Len(actorStats) :
            LET st == actorStats[i]
            IN  /\ st.burstActions <= st.totalActions
                /\ Cardinality(WavesWith(st.actor)) <= st.totalActions
                /\ st.totalActions > 0 =>
                       CardOf(st.actor).coordinationScore =
                           Rat(st.burstActions, st.totalActions)

\* a node whose two actions lie in two waves: the bound is met
C28_Witness ==
    /\ Returned
    /\ \E i \in 1..Len(actorStats) :
           /\ actorStats[i].totalActions = 2
           /\ actorStats[i].burstActions = 2
           /\ CardOf(actorStats[i].actor).coordinationScore = One

\* the nodes a has a positive action on
PositiveTargets(a) ==
    {t \in RefNodes(Cur.logs) : Follows(Cur.logs, Cur.settings, a, t)}

\* C24: for every node a, reciprocalRate is the number of nodes t with a
\* positive action of a on t and of t on a, divided by the number of nodes
\* a has a positive action on, and 0 when there is none; the mutual count
\* is at most the positive out-degree and the rate lies in [0,1].
C24_ReciprocalRate ==
    Returned =>
        \A i \in 1..Len(actorStats) :
            LET a == actorStats[i].actor
                out == PositiveTargets(a)
                mutual == {t \in out : Follows(Cur.logs, Cur.settings, t, a)}
            IN  /\ actorStats[i].mutualPositive = Cardinality(mutual)
                /\ actorStats[i].positiveOut = Cardinality(out)
                /\ actorStats[i].mutualPositive <= actorStats[i].positiveOut
                /\ CardOf(a).reciprocalRate =
                       IF out = {} THEN Zero
                       ELSE Rat(Cardinality(mutual), Cardinality(out))
                /\ InUnit(CardOf(a).reciprocalRate)

\* a node that follows two others, one of which follows back: rate 1/2
C24_Witness ==
    /\ Returned
    /\ \E i \in 1..Len(actorStats) :
           /\ actorStats[i].positiveOut = 2
           /\ actorStats[i].mutualPositive = 1
           /\ CardOf(actorStats[i].actor).reciprocalRate = Rat(1, 2)

\* the earliest instant of a row of node n (its rows' timestamps parse)
FirstSeen(n) == MinOf(FiniteTimes(Cur.logs, n, FALSE))

\* C25: newAccountScore is 1 exactly when the actor's creation instant is
\* known (any instant that parses, the epoch included) and
\* 0 <= firstSeen - created < 7 days, firstSeen being the actor's earliest
\* event time; otherwise it is 0 (violated: a creation instant of 0 ms is
\* taken for an unknown one).
C25_NewAccountScore ==
    (Returned /\ AllParse(Cur.logs)) =>
        \A i \in 1..Len(Res.scorecards) :
            LET n == Res.scorecards[i].actor
                createdAt == CreatedAtOf(Cur.logs, n)
                known == createdAt # "" /\ DateParse(createdAt).finite
                age == FirstSeen(n) - TimeOf(createdAt)
            IN  Res.scorecards[i].newAccountScore =
                    IF HasProfile(Cur.logs, n) /\ known
                       /\ 0 <= age /\ age < 7 * 24 * 60 * 60 * 1000
                    THEN One ELSE Zero

-----------------------------------------------------------------------------
(* validateLogs and sanitizeLogs *)

\* the five required fields
Required == {"timestamp", "actor", "target", "action", "platform"}

\* row r, as given, is complete: each required field is non-empty once
\* trimmed and the trimmed timestamp parses
Complete(r) ==
    /\ \A f \in Required : Trim(r[f]) # ""
    /\ DateParse(Trim(r.timestamp)).finite

\* C26: sanitizeLogs returns, in input order, exactly the rows whose five
\* required fields are non-empty after trimming and whose timestamp parses;
\* a returned row carries the trimmed values (and its other fields as
\* given); sanitizeLogs applied to its own output returns the same rows
\* and reports no dropped row.
C26_SanitizeKeepsCompleteRows ==
    sanitized # <<>> =>
        LET out == sanitized[1].logs
            kept == SelectSeq(raw, Complete)
            again == SanitizeLogs(out)
        IN  /\ Len(out) = Len(kept)
            /\ \A i \in 1..Len(out) :
                   /\ \A f \in Required : out[i][f] = Trim(kept[i][f])
                   /\ out[i].bio = kept[i].bio
            /\ again.logs = out
            /\ again.report.stats.droppedRows = 0

\* a padded row is kept and trimmed between a dropped row and a second
\* kept row
C26_Witness ==
    /\ sanitized # <<>>
    /\ Len(raw) = 3
    /\ raw[1].timestamp = NotADate
    /\ raw[2].actor = " a "
    /\ raw[3].actor = "b"
    /\ Len(sanitized[1].logs) = 2
    /\ sanitized[1].logs[1].actor = "a"
    /\ sanitized[1].logs[2].actor = "b"

\* C30: validRows + droppedRows = rows = the number of input rows; ok iff
\* validRows > 0; sanitizeLogs on the same input returns validRows rows,
\* and its report.ok is false iff that number is 0.
C30_ValidationCounts ==
    (validated # <<>> /\ sanitized # <<>>) =>
        LET st == validated[1].stats
        IN  /\ st.validRows + st.droppedRows = st.rows
            /\ st.rows = Len(raw)
            /\ validated[1].ok <=> st.validRows > 0
            /\ Len(sanitized[1].logs) = st.validRows
            /\ sanitized[1].report.ok <=> Len(sanitized[1].logs) # 0
            /\ sanitized[1].report.stats = st

\* three rows of which one is valid, one lacks a field and one has a
\* timestamp that does not parse
C30_Witness ==
    /\ validated # <<>> /\ sanitized # <<>>
    /\ validated[1].stats.rows = 3
    /\ validated[1].stats.validRows = 1
    /\ validated[1].stats.missingRequired = 1
    /\ validated[1].stats.invalidTimestamps = 1

-----------------------------------------------------------------------------
(* External edges; messages that change nothing *)

\* C27: every reported cluster has externalEdges = 0 and conductance = 0: a
\* cluster is a whole connected component, so no member is joined to a
\* node outside it.
C27_NoExternalEdges ==
    Returned =>
        \A i \in 1..Len(Res.clusters) :
            LET K == Range(Res.clusters[i].members)
            IN  /\ Res.clusters[i].externalEdges = 0
                /\ Res.clusters[i].conductance = Zero
                /\ \A u \in K, v \in RefNodes(Cur.logs) \ K :
                       ~Linked(Cur.logs, Cur.settings, u, v)

\* a cluster of two with a member that has two entries for its neighbour,
\* beside a node outside the cluster
C27_Witness ==
    /\ Returned
    /\ Len(Res.clusters) = 1
    /\ Len(Res.clusters[1].members) = 2
    /\ RefNodes(Cur.logs) \ Range(Res.clusters[1].members) # {}
    /\ \E i \in 1..Len(actorStats) : actorStats[i].connections = 2

\* the worker takes up the message at the head of the inbox in this step
TakesUp(type) ==
    /\ pc = "idle" /\ inbox # <<>> /\ Head(inbox).type = type
    /\ inbox' = Tail(inbox) /\ sent' = sent

\* C29: a cancel whose id is not the active id (or that finds no id
\* active) changes nothing: the cell keeps its value and nothing is posted;
\* the end of a run leaves the cell at the run's id; the cell changes only
\* when a matching cancel clears it or an analyze message sets it.
C29_UnmatchedCancelChangesNothing ==
    [][/\ (TakesUp("cancel") /\ Head(inbox).requestId # activeRequestId)
              => /\ activeRequestId' = activeRequestId
                 /\ outbox' = outbox
                 /\ pc' = "idle"
                 /\ UNCHANGED <<msg, locals, actorStats, result>>
       /\ (pc # "idle" /\ pc' = "idle")
              => activeRequestId' = Cur.requestId /\ activeRequestId = Cur.requestId
       /\ activeRequestId' # activeRequestId
              => \/ TakesUp("analyze") /\ activeRequestId' = Head(inbox).requestId
                 \/ /\ TakesUp("cancel") /\ Head(inbox).requestId = activeRequestId
                    /\ activeRequestId' = None]_vars

\* one run has completed and two cancels were taken up, none of them
\* matching: the cell still holds the run's id
C29_Witness ==
    /\ pc = "idle" /\ inbox = <<>>
    /\ sent = 3 /\ run = 1
    /\ result # <<>>
    /\ activeRequestId = Cur.requestId
    /\ cancelled = {}

====
